---- MODULE Spec2Model ----
(***************************************************************************)
(* Verilator scheduling (V3Sched.cpp, V3SchedTiming.cpp).                  *)
(*                                                                         *)
(* V3Sched::schedule generates the top level functions _eval_settle and    *)
(* _eval of the verilated model.  The generated statements are built here  *)
(* by operators that follow the generator function by function             *)
(* (setVar, buildLoop, makeEvalLoop, createSettle, createInputCombLoop,    *)
(* createEval, TimingKit::createResume/createCommit), and the generated    *)
(* program is then executed one statement per step.                        *)
(***************************************************************************)
EXTENDS Naturals, Integers, Sequences, FiniteSets, TLC

(***************************************************************************)
(* Bounds                                                                  *)
(***************************************************************************)
\* --converge-limit: v3Global.opt.convergeLimit()
ConvergeLimit == 1
\* number of clocked/hybrid AstSenTrees gathered for a trigger kit
NumSen == 1

\* number of calls of a generated top level function
MaxRuns == 2

\* number of AstActives in the logic given to a pass of schedule
MaxFrags == 3

\* number of times per call that executed logic may change a signal that a
\* sensitivity expression reads (enough to drive any one loop to its limit)
MaxFeedback == ConvergeLimit + 1

Sens == 0 .. (NumSen - 1)

(***************************************************************************)
(* The design being scheduled, as far as it decides what is generated.     *)
(***************************************************************************)
TimingKinds == {"none", "delay", "trigger"}

\* What is generated whatever the region loops are
Options ==
    [ stl       : BOOLEAN,      \* comb or hybrid logic exists
      postponed : BOOLEAN,      \* logicClasses.m_postponed is not empty
      dpi       : BOOLEAN,      \* netlistp->dpiExportTriggerp() is not null
      timing    : TimingKinds,  \* timingKit.m_lbs: empty / no trigger scheduler / some
      debug     : BOOLEAN,      \* the generated C++ is compiled with VL_DEBUG
      xInitialEdge : BOOLEAN ]  \* the sense expressions get an initialization time trigger

\* The option profiles explored: none, all, and a mixed one
Profiles ==
    { [stl |-> FALSE, postponed |-> FALSE, dpi |-> FALSE, timing |-> "none", debug |-> FALSE,
       xInitialEdge |-> FALSE],
      [stl |-> TRUE, postponed |-> TRUE, dpi |-> TRUE, timing |-> "trigger", debug |-> TRUE,
       xInitialEdge |-> FALSE],
      [stl |-> TRUE, postponed |-> FALSE, dpi |-> FALSE, timing |-> "delay", debug |-> FALSE,
       xInitialEdge |-> TRUE] }

Design(ico, obs, react, o) ==
    [ ico       |-> ico,        \* logicReplicas.m_ico is not empty
      obs       |-> obs,        \* logicClasses.m_observed is not empty
      react     |-> react,      \* logicClasses.m_reactive is not empty
      stl       |-> o.stl,
      postponed |-> o.postponed,
      dpi       |-> o.dpi,
      timing    |-> o.timing,
      debug     |-> o.debug,
      xInitialEdge |-> o.xInitialEdge ]

\* Every combination of the optional region loops under every profile
Designs ==
    { Design(ico, obs, react, o) : ico \in BOOLEAN, obs \in BOOLEAN, react \in BOOLEAN,
                                   o \in Profiles }

VARIABLES
    design,     \* the design (fixed)
    prog,       \* the functions generated for the design (fixed)
    status,     \* "idle", "running", "returned", "fatal"
    pc,         \* [fn, path]: the statement about to execute
    mem,        \* scalar temporaries: IterCount, Continue, DPI export flag
    trig,       \* the TRIGGERVEC variables, as sets of set bit indices
    pend,       \* per trigger kit: the sense expressions that evaluate true now
    fbCount,    \* signal changes made by executed logic in this call
    fatalMsg,   \* the region named by VL_FATAL_MT
    dumped,     \* the dump function called in the fatal block, if any
    iterNo,     \* history: per loop, while tests passed since the loop was entered
    iterLog,    \* history: per loop, statements executed in its current iteration
    nbaSeen,    \* history: OR of NBA vectors at NBA body calls since react cleared
    actSeen,    \* history: OR of act vectors latched since the act loop was entered
    runNo,      \* calls of an entry point made so far
    gen         \* the state of a pass of V3Sched::schedule over the logic of a netlist

vars == <<design, prog, status, pc, mem, trig, pend, fbCount, fatalMsg, dumped,
          iterNo, iterLog, nbaSeen, actSeen, runNo, gen>>

(***************************************************************************)
(* Names of generated variables and functions                              *)
(***************************************************************************)
Tags == {"stl", "ico", "act", "nba", "obs", "react"}

IterCount(tag) == "__V" \o tag \o "IterCount"
Continue(tag) == "__V" \o tag \o "Continue"
Triggered(name) == "__V" \o name \o "Triggered"
EvalTriggers(name) == "_eval_triggers__" \o name
DumpTriggers(name) == "_dump_triggers__" \o name
DidInit(name) == "__V" \o name \o "DidInit"
EvalFunc(name) == "_eval_" \o name

dpiExportTriggerVscp == "__Vdpi_export_trigger"
nullptr == "nullptr"

ScalarNames == {IterCount(t) : t \in Tags} \cup {Continue(t) : t \in Tags}
                 \cup {dpiExportTriggerVscp}
                 \cup {DidInit(k) : k \in {"stl", "ico", "act"}}
VecNames == {Triggered(n) : n \in Tags \cup {"pre"}}
Kits == {"stl", "ico", "act"}

(***************************************************************************)
(* Generated statements.  stmts holds the statements nested in a while or  *)
(* an if.                                                                  *)
(***************************************************************************)
Stmt(op, var, a, b, val, stmts) ==
    [op |-> op, var |-> var, a |-> a, b |-> b, val |-> val, stmts |-> stmts]

\* AstAssign of a constant to a scalar temporary
setVar(vscp, val) == Stmt("setVar", vscp, nullptr, nullptr, val, <<>>)

AstWhile(condp, stmts) == Stmt("while", condp, nullptr, nullptr, 0, stmts)
\* AstIf on the vector's any()
AstIfAny(vscp, thens) == Stmt("ifAny", vscp, nullptr, nullptr, 0, thens)
\* AstIf on AstGt{counter, limit}
AstIfGt(counterp, limit, thens) == Stmt("ifGt", counterp, nullptr, nullptr, limit, thens)
\* AstAssign counter = counter + 1
AstIncr(counterp) == Stmt("incr", counterp, nullptr, nullptr, 1, <<>>)
AstCCall(funcp) == Stmt("call", funcp, nullptr, nullptr, 0, <<>>)
\* "#ifdef VL_DEBUG" call of the dump function "#endif"
IfdefDebugCall(dumpp) == Stmt("ifdefDebugCall", dumpp, nullptr, nullptr, 0, <<>>)
\* VL_FATAL_MT(file, line, "", "<name> region did not converge.")
VlFatal(name) == Stmt("fatal", name, nullptr, nullptr, 0, <<>>)

createTriggerClearCall(vscp) == Stmt("clear", vscp, nullptr, nullptr, 0, <<>>)

\* createTriggerSetCall with the operands exchanged
createTriggerSetCall_swapped(toVscp, fromVscp) ==
    Stmt("thisOr", fromVscp, toVscp, nullptr, 0, <<>>)

createTriggerSetCall(toVscp, fromVscp) ==
    Stmt("thisOr", toVscp, fromVscp, nullptr, 0, <<>>)

\* createTriggerAndNotCall with the operands exchanged
createTriggerAndNotCall_swapped(lhsVscp, aVscp, bVscp) ==
    Stmt("andNot", lhsVscp, bVscp, aVscp, 0, <<>>)

createTriggerAndNotCall(lhsVscp, aVscp, bVscp) ==
    Stmt("andNot", lhsVscp, aVscp, bVscp, 0, <<>>)

(***************************************************************************)
(* Helpers to construct an evaluation loop                                 *)
(***************************************************************************)
\* buildLoop without the reset of the continuation flag in the loop
buildLoop_noReset(name, build) ==
    << setVar(Continue(name), 1), AstWhile(Continue(name), build) >>

buildLoop(name, build) ==
    << setVar(Continue(name), 1),
       AstWhile(Continue(name), <<setVar(Continue(name), 0)>> \o build) >>

\* makeEvalLoop with the body placed before the limit test and the increment
makeEvalLoop_bodyFirst(tag, name, trigVscp, trigDumpp, computeTriggers, makeBody) ==
    << setVar(IterCount(tag), 0) >>
    \o buildLoop(tag,
         computeTriggers
         \o << AstIfAny(trigVscp,
                 << setVar(Continue(tag), 1) >>
                 \o makeBody
                 \o << AstIfGt(IterCount(tag), ConvergeLimit,
                               << IfdefDebugCall(trigDumpp), VlFatal(name) >>),
                       AstIncr(IterCount(tag)) >>) >>)

\* makeEvalLoop with the increment placed before the limit test
makeEvalLoop_incrFirst(tag, name, trigVscp, trigDumpp, computeTriggers, makeBody) ==
    << setVar(IterCount(tag), 0) >>
    \o buildLoop(tag,
         computeTriggers
         \o << AstIfAny(trigVscp,
                 << setVar(Continue(tag), 1),
                    AstIncr(IterCount(tag)),
                    AstIfGt(IterCount(tag), ConvergeLimit,
                            << IfdefDebugCall(trigDumpp), VlFatal(name) >>) >>
                 \o makeBody) >>)

\* makeEvalLoop without the statement that sets the continue flag
makeEvalLoop_noContinue(tag, name, trigVscp, trigDumpp, computeTriggers, makeBody) ==
    << setVar(IterCount(tag), 0) >>
    \o buildLoop(tag,
         computeTriggers
         \o << AstIfAny(trigVscp,
                 << AstIfGt(IterCount(tag), ConvergeLimit,
                            << IfdefDebugCall(trigDumpp), VlFatal(name) >>),
                    AstIncr(IterCount(tag)) >>
                 \o makeBody) >>)

\* makeEvalLoop without the VL_FATAL_MT in the block of the limit test
makeEvalLoop_noFatal(tag, name, trigVscp, trigDumpp, computeTriggers, makeBody) ==
    << setVar(IterCount(tag), 0) >>
    \o buildLoop(tag,
         computeTriggers
         \o << AstIfAny(trigVscp,
                 << setVar(Continue(tag), 1),
                    AstIfGt(IterCount(tag), ConvergeLimit, << IfdefDebugCall(trigDumpp) >>),
                    AstIncr(IterCount(tag)) >>
                 \o makeBody) >>)

makeEvalLoop(tag, name, trigVscp, trigDumpp, computeTriggers, makeBody) ==
    << setVar(IterCount(tag), 0) >>
    \o buildLoop(tag,
         computeTriggers
         \o << AstIfAny(trigVscp,
                 << setVar(Continue(tag), 1),
                    AstIfGt(IterCount(tag), ConvergeLimit,
                            << IfdefDebugCall(trigDumpp), VlFatal(name) >>),
                    AstIncr(IterCount(tag)) >>
                 \o makeBody) >>)

\* makeTopFunction: the AstCFunc created, an entry point
makeTopFunction(name) == name

\* What a builder adds to the netlist: the AstCFuncs and the top scope
\* variables it creates, and the statements of its loop
Built(funcs, vscps, stmtsp) == [funcs |-> funcs, vars |-> vscps, stmtsp |-> stmtsp]

\* createTriggers and makeEvalLoop for the kit name: the functions and the
\* variables they create
kitFuncs(name) == {EvalTriggers(name), DumpTriggers(name), EvalFunc(name)}
kitVars(name, d) ==
    {Triggered(name), IterCount(name), Continue(name)}
    \cup (IF d.xInitialEdge THEN {DidInit(name)} ELSE {})

\* Variant: the test for no logic comes before anything is created
createSettle_checkFirst(d) ==
    IF ~d.stl THEN Built({}, {}, <<>>)
    ELSE Built({makeTopFunction(EvalFunc("settle"))} \cup kitFuncs("stl"), kitVars("stl", d),
               makeEvalLoop("stl", "Settle", Triggered("stl"), DumpTriggers("stl"),
                            << AstCCall(EvalTriggers("stl")) >>,
                            << AstCCall(EvalFunc("stl")) >>))

\* The settle loop: the statements of _eval_settle; d.stl is
\* !(comb.empty() && hybrid.empty())
createSettle(d) ==
    LET funcp == makeTopFunction(EvalFunc("settle"))
    IN  IF ~d.stl THEN Built({funcp}, {}, <<>>)
        ELSE Built({funcp} \cup kitFuncs("stl"), kitVars("stl", d),
                   makeEvalLoop("stl", "Settle", Triggered("stl"), DumpTriggers("stl"),
                                << AstCCall(EvalTriggers("stl")) >>,
                                << AstCCall(EvalFunc("stl")) >>))

\* The 'ico' loop; nothing when it returns nullptr
createInputCombLoop(d) ==
    IF ~d.ico THEN Built({}, {}, <<>>)
    ELSE Built(kitFuncs("ico"), kitVars("ico", d),
               makeEvalLoop("ico", "Input combinational", Triggered("ico"),
                            DumpTriggers("ico"),
                            << AstCCall(EvalTriggers("ico")) >>,
                            << AstCCall(EvalFunc("ico")) >>))

(***************************************************************************)
(* TimingKit                                                               *)
(***************************************************************************)
\* The function called by the resume call, nullptr when m_lbs is empty
createResume(timingKit) ==
    IF timingKit = "none" THEN nullptr ELSE "_timing_resume"

\* The function called by the commit call, nullptr without trigger schedulers
createCommit(timingKit) ==
    IF timingKit = "trigger" THEN "_timing_commit" ELSE nullptr

(***************************************************************************)
(* EvalKits, as schedule() makes them                                      *)
(***************************************************************************)
EvalKit(vscp, triggerComputep, dumpp, funcp) ==
    [m_vscp |-> vscp, m_triggerComputep |-> triggerComputep,
     m_dumpp |-> dumpp, m_funcp |-> funcp]

NoKit == EvalKit(nullptr, nullptr, nullptr, nullptr)

order(name) == EvalKit(Triggered(name), nullptr, DumpTriggers(name), EvalFunc(name))

orderIfNonEmpty(name, nonEmpty) == IF nonEmpty THEN order(name) ELSE NoKit

(***************************************************************************)
(* createEval: the trigger and body sections of the four region loops      *)
(***************************************************************************)
\* The active trigger section with the commit call before the trigger computation
actComputeTriggers_commitFirst(actKit, timingKit) ==
    (IF createCommit(timingKit) # nullptr
     THEN << AstCCall(createCommit(timingKit)) >> ELSE <<>>)
    \o << AstCCall(actKit.m_triggerComputep) >>

actComputeTriggers(actKit, timingKit) ==
    << AstCCall(actKit.m_triggerComputep) >>
    \o (IF createCommit(timingKit) # nullptr
        THEN << AstCCall(createCommit(timingKit)) >> ELSE <<>>)

\* The active body with the latch before the computation of the pre triggers
actMakeBody_latchFirst(preTrigsp, actKit, nbaKit, timingKit) ==
    << createTriggerSetCall(nbaKit.m_vscp, actKit.m_vscp),
       createTriggerAndNotCall(preTrigsp, actKit.m_vscp, nbaKit.m_vscp) >>
    \o (IF createResume(timingKit) # nullptr
        THEN << AstCCall(createResume(timingKit)) >> ELSE <<>>)
    \o << AstCCall(actKit.m_funcp) >>

actMakeBody(preTrigsp, actKit, nbaKit, timingKit) ==
    << createTriggerAndNotCall(preTrigsp, actKit.m_vscp, nbaKit.m_vscp),
       createTriggerSetCall(nbaKit.m_vscp, actKit.m_vscp) >>
    \o (IF createResume(timingKit) # nullptr
        THEN << AstCCall(createResume(timingKit)) >> ELSE <<>>)
    \o << AstCCall(actKit.m_funcp) >>

\* The NBA trigger section with the clear after the active loop
nbaComputeTriggers_loopFirst(nbaKit, activeEvalLoopp) ==
    activeEvalLoopp \o << createTriggerClearCall(nbaKit.m_vscp) >>

nbaComputeTriggers(nbaKit, activeEvalLoopp) ==
    << createTriggerClearCall(nbaKit.m_vscp) >> \o activeEvalLoopp

\* The NBA body latching the pre triggers instead of the NBA triggers
nbaMakeBody_latchPre(nbaKit, obsKit, reactKit) ==
    LET nextVscp == IF obsKit.m_vscp # nullptr THEN obsKit.m_vscp ELSE reactKit.m_vscp
    IN  << AstCCall(nbaKit.m_funcp) >>
        \o (IF nextVscp # nullptr
            THEN << createTriggerSetCall(nextVscp, Triggered("pre")) >> ELSE <<>>)

\* The NBA body ORing the NBA triggers back into the active triggers as well
nbaMakeBody_latchBack(nbaKit, obsKit, reactKit) ==
    LET nextVscp == IF obsKit.m_vscp # nullptr THEN obsKit.m_vscp ELSE reactKit.m_vscp
    IN  << AstCCall(nbaKit.m_funcp),
           createTriggerSetCall(Triggered("act"), nbaKit.m_vscp) >>
        \o (IF nextVscp # nullptr
            THEN << createTriggerSetCall(nextVscp, nbaKit.m_vscp) >> ELSE <<>>)

\* The NBA body with the latch before the call of the NBA logic
nbaMakeBody_latchFirst(nbaKit, obsKit, reactKit) ==
    LET nextVscp == IF obsKit.m_vscp # nullptr THEN obsKit.m_vscp ELSE reactKit.m_vscp
    IN  (IF nextVscp # nullptr
         THEN << createTriggerSetCall(nextVscp, nbaKit.m_vscp) >> ELSE <<>>)
        \o << AstCCall(nbaKit.m_funcp) >>

nbaMakeBody(nbaKit, obsKit, reactKit) ==
    LET nextVscp == IF obsKit.m_vscp # nullptr THEN obsKit.m_vscp ELSE reactKit.m_vscp
    IN  << AstCCall(nbaKit.m_funcp) >>
        \o (IF nextVscp # nullptr
            THEN << createTriggerSetCall(nextVscp, nbaKit.m_vscp) >> ELSE <<>>)

obsComputeTriggers(obsKit, topEvalLoopp) ==
    << createTriggerClearCall(obsKit.m_vscp) >> \o topEvalLoopp

obsMakeBody(obsKit, reactKit) ==
    << AstCCall(obsKit.m_funcp) >>
    \o (IF reactKit.m_vscp # nullptr
        THEN << createTriggerSetCall(reactKit.m_vscp, obsKit.m_vscp) >> ELSE <<>>)

reactComputeTriggers(reactKit, topEvalLoopp) ==
    << createTriggerClearCall(reactKit.m_vscp) >> \o topEvalLoopp

reactMakeBody(reactKit) == << AstCCall(reactKit.m_funcp) >>

\* createEval with the call of the postponed function before the region loops
createEval_postponedFirst(icoLoop, actKit, preTrigsp, nbaKit, obsKit, reactKit, postponedFuncp, timingKit) ==
    LET activeEvalLoopp ==
            makeEvalLoop("act", "Active", actKit.m_vscp, actKit.m_dumpp,
                         actComputeTriggers(actKit, timingKit),
                         actMakeBody(preTrigsp, actKit, nbaKit, timingKit))
        nbaEvalLoopp ==
            makeEvalLoop("nba", "NBA", nbaKit.m_vscp, nbaKit.m_dumpp,
                         nbaComputeTriggers(nbaKit, activeEvalLoopp),
                         nbaMakeBody(nbaKit, obsKit, reactKit))
        obsEvalLoopp ==
            IF obsKit.m_funcp # nullptr
            THEN makeEvalLoop("obs", "Observed", obsKit.m_vscp, obsKit.m_dumpp,
                              obsComputeTriggers(obsKit, nbaEvalLoopp),
                              obsMakeBody(obsKit, reactKit))
            ELSE nbaEvalLoopp
        topEvalLoopp ==
            IF reactKit.m_funcp # nullptr
            THEN makeEvalLoop("react", "Reactive", reactKit.m_vscp, reactKit.m_dumpp,
                              reactComputeTriggers(reactKit, obsEvalLoopp),
                              reactMakeBody(reactKit))
            ELSE obsEvalLoopp
    IN  icoLoop
        \o (IF postponedFuncp # nullptr THEN << AstCCall(postponedFuncp) >> ELSE <<>>)
        \o topEvalLoopp

\* The statements of _eval
createEval(icoLoop, actKit, preTrigsp, nbaKit, obsKit, reactKit, postponedFuncp, timingKit) ==
    LET activeEvalLoopp ==
            makeEvalLoop("act", "Active", actKit.m_vscp, actKit.m_dumpp,
                         actComputeTriggers(actKit, timingKit),
                         actMakeBody(preTrigsp, actKit, nbaKit, timingKit))
        nbaEvalLoopp ==
            makeEvalLoop("nba", "NBA", nbaKit.m_vscp, nbaKit.m_dumpp,
                         nbaComputeTriggers(nbaKit, activeEvalLoopp),
                         nbaMakeBody(nbaKit, obsKit, reactKit))
        obsEvalLoopp ==
            IF obsKit.m_funcp # nullptr
            THEN makeEvalLoop("obs", "Observed", obsKit.m_vscp, obsKit.m_dumpp,
                              obsComputeTriggers(obsKit, nbaEvalLoopp),
                              obsMakeBody(obsKit, reactKit))
            ELSE nbaEvalLoopp
        topEvalLoopp ==
            IF reactKit.m_funcp # nullptr
            THEN makeEvalLoop("react", "Reactive", reactKit.m_vscp, reactKit.m_dumpp,
                              reactComputeTriggers(reactKit, obsEvalLoopp),
                              reactMakeBody(reactKit))
            ELSE obsEvalLoopp
    IN  icoLoop
        \o topEvalLoopp
        \o (IF postponedFuncp # nullptr THEN << AstCCall(postponedFuncp) >> ELSE <<>>)

createPostponed(d) == IF d.postponed THEN EvalFunc("postponed") ELSE nullptr

\* The generated top level functions of design d
schedule(d) ==
    [ stl |-> [funcs |-> createSettle(d).funcs, vars |-> createSettle(d).vars],
      ico |-> [funcs |-> createInputCombLoop(d).funcs,
               vars |-> createInputCombLoop(d).vars],
      _eval_settle |-> createSettle(d).stmtsp,
      _eval |-> createEval(createInputCombLoop(d).stmtsp,
                           EvalKit(Triggered("act"), EvalTriggers("act"),
                                   DumpTriggers("act"), EvalFunc("act")),
                           Triggered("pre"),
                           order("nba"),
                           orderIfNonEmpty("obs", d.obs),
                           orderIfNonEmpty("react", d.react),
                           createPostponed(d),
                           d.timing) ]

(***************************************************************************)
(* VlTriggerVec (the run time type of a TRIGGERVEC): the methods the       *)
(* generated statements call                                               *)
(***************************************************************************)
VecAny(vec) == vec # {}
VecSet(vec, index, value) == IF value THEN vec \cup {index} ELSE vec \ {index}
VecThisOr(this, other) == this \cup other
VecAndNot(a, b) == a \ b

(***************************************************************************)
(* Extra triggers of each trigger kit, in allocation order                 *)
(***************************************************************************)
firstIteration == "first iteration"
dpiExport == "DPI export trigger"

\* Variant: the DPI export trigger is given to the act kit only
extraTriggers_actOnly(kit, d) ==
    (IF kit \in {"stl", "ico"} THEN << firstIteration >> ELSE <<>>)
    \o (IF kit = "act" /\ d.dpi THEN << dpiExport >> ELSE <<>>)

extraTriggers(kit, d) ==
    (IF kit \in {"stl", "ico"} THEN << firstIteration >> ELSE <<>>)
    \o (IF kit \in {"ico", "act"} /\ d.dpi THEN << dpiExport >> ELSE <<>>)

\* ExtraTriggers::allocate returns the index the description got
allocate(extras, description) ==
    (CHOOSE i \in 1 .. Len(extras) : extras[i] = description) - 1

HasExtra(extras, description) == \E i \in 1 .. Len(extras) : extras[i] = description

\* The sense expressions with an initialization time trigger (initialTrigsp)
initialTrigs(d) == IF d.xInitialEdge THEN Sens ELSE {}

\* evalTriggers with the first iteration bit set in every iteration
evalTriggers_firstAlways(kit, d, vec, counter, dpiFlag, fired, didInit) ==
    LET extras == extraTriggers(kit, d)
        v1 == IF HasExtra(extras, firstIteration)
              THEN VecSet(vec, allocate(extras, firstIteration), TRUE) ELSE vec
        v2 == IF HasExtra(extras, dpiExport)
              THEN VecSet(v1, allocate(extras, dpiExport), dpiFlag = 1) ELSE v1
        v3 == (v2 \ {Len(extras) + k : k \in Sens}) \cup {Len(extras) + k : k \in fired}
    IN  IF didInit = 0 THEN v3 \cup {Len(extras) + k : k \in initialTrigs(d)} ELSE v3

\* Variant: the DPI export trigger is set from the flag but never reset
evalTriggers_dpiSticky(kit, d, vec, counter, dpiFlag, fired, didInit) ==
    LET extras == extraTriggers(kit, d)
        v1 == IF HasExtra(extras, firstIteration)
              THEN VecSet(vec, allocate(extras, firstIteration), counter = 0) ELSE vec
        v2 == IF HasExtra(extras, dpiExport) /\ dpiFlag = 1
              THEN VecSet(v1, allocate(extras, dpiExport), TRUE) ELSE v1
        v3 == (v2 \ {Len(extras) + k : k \in Sens}) \cup {Len(extras) + k : k \in fired}
    IN  IF didInit = 0 THEN v3 \cup {Len(extras) + k : k \in initialTrigs(d)} ELSE v3

\* Variant: the first iteration trigger is never set
evalTriggers_firstNever(kit, d, vec, counter, dpiFlag, fired, didInit) ==
    LET extras == extraTriggers(kit, d)
        v1 == IF HasExtra(extras, firstIteration)
              THEN VecSet(vec, allocate(extras, firstIteration), FALSE) ELSE vec
        v2 == IF HasExtra(extras, dpiExport)
              THEN VecSet(v1, allocate(extras, dpiExport), dpiFlag = 1) ELSE v1
        v3 == (v2 \ {Len(extras) + k : k \in Sens}) \cup {Len(extras) + k : k \in fired}
    IN  IF didInit = 0 THEN v3 \cup {Len(extras) + k : k \in initialTrigs(d)} ELSE v3

\* The vector after _eval_triggers__<kit> has run: the first iteration
\* assignment, the DPI export assignment, one set per sense expression, then
\* the initialization time triggers if the function has not run before
evalTriggers(kit, d, vec, counter, dpiFlag, fired, didInit) ==
    LET extras == extraTriggers(kit, d)
        v1 == IF HasExtra(extras, firstIteration)
              THEN VecSet(vec, allocate(extras, firstIteration), counter = 0) ELSE vec
        v2 == IF HasExtra(extras, dpiExport)
              THEN VecSet(v1, allocate(extras, dpiExport), dpiFlag = 1) ELSE v1
        v3 == (v2 \ {Len(extras) + k : k \in Sens}) \cup {Len(extras) + k : k \in fired}
    IN  IF didInit = 0 THEN v3 \cup {Len(extras) + k : k \in initialTrigs(d)} ELSE v3

(***************************************************************************)
(* Execution of the generated functions, one statement per step            *)
(***************************************************************************)
FuncBody(fn) == IF fn = "_eval" THEN prog._eval ELSE prog._eval_settle

RECURSIVE StmtIn(_, _)
StmtIn(list, path) ==
    IF Len(path) = 1 THEN list[path[1]]
    ELSE StmtIn(list[path[1]].stmts, Tail(path))

StmtAt(fn, path) == StmtIn(FuncBody(fn), path)

Parent(path) == SubSeq(path, 1, Len(path) - 1)

Siblings(fn, path) ==
    IF Len(path) = 1 THEN FuncBody(fn) ELSE StmtAt(fn, Parent(path)).stmts

\* The statement after the one at path: the next one of its list; at the end
\* of a while body the while again; at the end of an if the one after the if
RECURSIVE Advance(_, _)
Advance(fn, path) ==
    IF path[Len(path)] < Len(Siblings(fn, path))
    THEN Parent(path) \o << path[Len(path)] + 1 >>
    ELSE IF Len(path) = 1 THEN <<>>
    ELSE IF StmtAt(fn, Parent(path)).op = "while" THEN Parent(path)
    ELSE Advance(fn, Parent(path))

\* The first statement nested in the one at path
Enter(fn, path) ==
    IF StmtAt(fn, path).stmts = <<>> THEN Advance(fn, path) ELSE path \o << 1 >>

\* The loop a statement belongs to: the condition variable of the innermost
\* while around it
RECURSIVE Owner(_, _)
Owner(fn, path) ==
    IF Len(path) <= 1 THEN "top"
    ELSE IF StmtAt(fn, Parent(path)).op = "while" THEN StmtAt(fn, Parent(path)).var
    ELSE Owner(fn, Parent(path))

IsPrefix(p, q) == Len(p) <= Len(q) /\ SubSeq(q, 1, Len(p)) = p

LoopNames == {Continue(t) : t \in Tags} \cup {"top"}

Cur == StmtAt(pc.fn, pc.path)
Running == status = "running" /\ pc.path # <<>>
At(op) == Running /\ Cur.op = op

Label(s, res) == << s.op, s.var, s.a, s.b, s.val, res >>

\* A while reached from the statement before it (not from the end of its body)
EntersLoop(next) ==
    /\ next # <<>>
    /\ StmtAt(pc.fn, next).op = "while"
    /\ ~IsPrefix(next, pc.path)

\* Control moves to next; the history variables record the executed statement
Goto(next, res) ==
    LET owner == Owner(pc.fn, pc.path)
        retest == Cur.op = "while" /\ iterNo[Cur.var] > 0
        log1 == IF retest THEN iterLog
                ELSE [iterLog EXCEPT ![owner] = Append(@, Label(Cur, res))]
        log2 == IF Cur.op = "while" /\ res THEN [log1 EXCEPT ![Cur.var] = <<>>] ELSE log1
        no1 == IF Cur.op = "while" /\ res THEN [iterNo EXCEPT ![Cur.var] = @ + 1] ELSE iterNo
    IN  /\ pc' = [pc EXCEPT !.path = next]
        /\ IF EntersLoop(next)
           THEN /\ iterLog' = [log2 EXCEPT ![StmtAt(pc.fn, next).var] = <<>>]
                /\ iterNo' = [no1 EXCEPT ![StmtAt(pc.fn, next).var] = 0]
                /\ actSeen' = IF StmtAt(pc.fn, next).var = Continue("act") THEN {}
                              ELSE actSeen
           ELSE /\ iterLog' = log2
                /\ iterNo' = no1
                /\ actSeen' = IF Cur.op = "call" /\ Cur.var = EvalFunc("act")
                              THEN actSeen \cup trig[Triggered("act")] ELSE actSeen
        /\ nbaSeen' = IF Cur.op = "clear" /\ Cur.var = Triggered("react") THEN {}
                      ELSE IF Cur.op = "call" /\ Cur.var = EvalFunc("nba")
                      THEN nbaSeen \cup trig[Triggered("nba")] ELSE nbaSeen

\* No pass is running
NoPass == [pass |-> "none"]

InitRuntime ==
    /\ design \in Designs
    /\ prog = schedule(design)
    /\ status = "idle"
    /\ pc = [fn |-> "", path |-> <<>>]
    /\ mem = [v \in ScalarNames |-> 0]
    /\ trig = [v \in VecNames |-> {}]
    /\ pend = [k \in Kits |-> {}]
    /\ fbCount = 0
    /\ fatalMsg = ""
    /\ dumped = ""
    /\ iterNo = [l \in LoopNames |-> 0]
    /\ iterLog = [l \in LoopNames |-> <<>>]
    /\ nbaSeen = {}
    /\ actSeen = {}
    /\ runNo = 0

Init == InitRuntime /\ gen = NoPass

\* The variables of the generated program, which no pass of schedule changes
runtimeVars == <<design, prog, status, pc, mem, trig, pend, fbCount, fatalMsg, dumped,
                 iterNo, iterLog, nbaSeen, actSeen, runNo>>

\* The simulation calls the entry point fn; newPend holds the sense expressions
\* that evaluate true, dpi tells whether a DPI export has written a signal
Call(fn, newPend, dpi) ==
    /\ status = "idle"
    /\ status' = "running"
    /\ pc' = [fn |-> fn, path |-> IF FuncBody(fn) = <<>> THEN <<>> ELSE << 1 >>]
    /\ pend' = newPend
    /\ mem' = IF dpi THEN [mem EXCEPT ![dpiExportTriggerVscp] = 1] ELSE mem
    /\ fbCount' = 0
    /\ iterNo' = [l \in LoopNames |-> 0]
    /\ iterLog' = [l \in LoopNames |-> <<>>]
    /\ nbaSeen' = {}
    /\ actSeen' = {}
    /\ runNo' = runNo + 1
    /\ UNCHANGED << gen, design, prog, trig, fatalMsg, dumped >>

CallSettle ==
    \E hyb \in SUBSET Sens :
       Call("_eval_settle", [pend EXCEPT !["stl"] = IF design.stl THEN hyb ELSE {}], FALSE)

CallEval ==
    \E ico \in SUBSET Sens, act \in SUBSET Sens, dpi \in BOOLEAN :
       /\ design.ico \/ ico = {}
       /\ design.dpi \/ ~dpi
       /\ Call("_eval", [stl |-> {}, ico |-> ico, act |-> act], dpi)

Return ==
    /\ status = "running"
    /\ pc.path = <<>>
    /\ status' = "returned"
    /\ pc' = pc
    /\ UNCHANGED << gen, runNo, design, prog, mem, trig, pend, fbCount, fatalMsg, dumped,
                    iterNo, iterLog, nbaSeen, actSeen >>

ExecSetVar ==
    /\ At("setVar")
    /\ mem' = [mem EXCEPT ![Cur.var] = Cur.val]
    /\ Goto(Advance(pc.fn, pc.path), TRUE)
    /\ UNCHANGED << gen, runNo, design, prog, status, trig, pend, fbCount, fatalMsg, dumped >>

ExecWhile ==
    /\ At("while")
    /\ Goto(IF mem[Cur.var] = 1 THEN Enter(pc.fn, pc.path) ELSE Advance(pc.fn, pc.path),
            mem[Cur.var] = 1)
    /\ UNCHANGED << gen, runNo, design, prog, status, mem, trig, pend, fbCount, fatalMsg, dumped >>

ExecIfAny ==
    /\ At("ifAny")
    /\ Goto(IF VecAny(trig[Cur.var]) THEN Enter(pc.fn, pc.path)
            ELSE Advance(pc.fn, pc.path),
            VecAny(trig[Cur.var]))
    /\ UNCHANGED << gen, runNo, design, prog, status, mem, trig, pend, fbCount, fatalMsg, dumped >>

ExecIfGt ==
    /\ At("ifGt")
    /\ Goto(IF mem[Cur.var] > Cur.val THEN Enter(pc.fn, pc.path)
            ELSE Advance(pc.fn, pc.path),
            mem[Cur.var] > Cur.val)
    /\ UNCHANGED << gen, runNo, design, prog, status, mem, trig, pend, fbCount, fatalMsg, dumped >>

ExecIncr ==
    /\ At("incr")
    /\ mem' = [mem EXCEPT ![Cur.var] = @ + Cur.val]
    /\ Goto(Advance(pc.fn, pc.path), TRUE)
    /\ UNCHANGED << gen, runNo, design, prog, status, trig, pend, fbCount, fatalMsg, dumped >>

ExecIfdefDebugCall ==
    /\ At("ifdefDebugCall")
    /\ dumped' = IF design.debug THEN Cur.var ELSE dumped
    /\ Goto(Advance(pc.fn, pc.path), design.debug)
    /\ UNCHANGED << gen, runNo, design, prog, status, mem, trig, pend, fbCount, fatalMsg >>

ExecFatal ==
    /\ At("fatal")
    /\ status' = "fatal"
    /\ fatalMsg' = Cur.var
    /\ Goto(pc.path, TRUE)
    /\ UNCHANGED << gen, runNo, design, prog, mem, trig, pend, fbCount, dumped >>

ExecClear ==
    /\ At("clear")
    /\ trig' = [trig EXCEPT ![Cur.var] = {}]
    /\ Goto(Advance(pc.fn, pc.path), TRUE)
    /\ UNCHANGED << gen, runNo, design, prog, status, mem, pend, fbCount, fatalMsg, dumped >>

ExecThisOr ==
    /\ At("thisOr")
    /\ trig' = [trig EXCEPT ![Cur.var] = VecThisOr(@, trig[Cur.a])]
    /\ Goto(Advance(pc.fn, pc.path), TRUE)
    /\ UNCHANGED << gen, runNo, design, prog, status, mem, pend, fbCount, fatalMsg, dumped >>

ExecAndNot ==
    /\ At("andNot")
    /\ trig' = [trig EXCEPT ![Cur.var] = VecAndNot(trig[Cur.a], trig[Cur.b])]
    /\ Goto(Advance(pc.fn, pc.path), TRUE)
    /\ UNCHANGED << gen, runNo, design, prog, status, mem, pend, fbCount, fatalMsg, dumped >>

\* Call of a trigger computation function
ExecCallTriggers ==
    /\ At("call")
    /\ \E kit \in Kits :
          /\ Cur.var = EvalTriggers(kit)
          /\ trig' = [trig EXCEPT ![Triggered(kit)] =
                         evalTriggers(kit, design, @, mem[IterCount(kit)],
                                      mem[dpiExportTriggerVscp], pend[kit],
                                      mem[DidInit(kit)])]
          /\ mem' = [mem EXCEPT
                       ![dpiExportTriggerVscp] =
                           IF HasExtra(extraTriggers(kit, design), dpiExport) THEN 0 ELSE @,
                       ![DidInit(kit)] =
                           IF initialTrigs(design) # {} THEN 1 ELSE @]
          /\ pend' = [pend EXCEPT ![kit] = {}]
    /\ Goto(Advance(pc.fn, pc.path), TRUE)
    /\ UNCHANGED << gen, runNo, design, prog, status, fbCount, fatalMsg, dumped >>

\* The trigger kit whose sense expressions read what function fn writes
KitOf(fn) ==
    IF fn = EvalFunc("stl") THEN "stl" ELSE IF fn = EvalFunc("ico") THEN "ico" ELSE "act"

LogicFuncs == {EvalFunc(t) : t \in Tags} \cup {"_timing_resume"}

\* What a logic function may do to the state the trigger computations read:
\* nothing, make one sense expression true, or call a DPI export
Effects(d) ==
    {[sen |-> {}, dpi |-> FALSE]}
    \cup {[sen |-> {k}, dpi |-> FALSE] : k \in Sens}
    \cup (IF d.dpi THEN {[sen |-> {}, dpi |-> TRUE]} ELSE {})

\* Call of an ordered logic function or of the resume function
ExecCallLogic ==
    /\ At("call")
    /\ Cur.var \in LogicFuncs
    /\ \E e \in Effects(design) :
          IF e.sen = {} /\ ~e.dpi
          THEN UNCHANGED << pend, mem, fbCount >>
          ELSE /\ fbCount < MaxFeedback
               /\ fbCount' = fbCount + 1
               /\ pend' = [pend EXCEPT ![KitOf(Cur.var)] = @ \cup e.sen]
               /\ mem' = IF e.dpi THEN [mem EXCEPT ![dpiExportTriggerVscp] = 1] ELSE mem
    /\ Goto(Advance(pc.fn, pc.path), TRUE)
    /\ UNCHANGED << gen, runNo, design, prog, status, trig, fatalMsg, dumped >>

\* Call of the commit function or of the postponed function
ExecCallOther ==
    /\ At("call")
    /\ Cur.var \in {"_timing_commit", EvalFunc("postponed")}
    /\ Goto(Advance(pc.fn, pc.path), TRUE)
    /\ UNCHANGED << gen, runNo, design, prog, status, mem, trig, pend, fbCount, fatalMsg, dumped >>

Next ==
    \/ CallSettle
    \/ CallEval
    \/ Return
    \/ ExecSetVar
    \/ ExecWhile
    \/ ExecIfAny
    \/ ExecIfGt
    \/ ExecIncr
    \/ ExecIfdefDebugCall
    \/ ExecFatal
    \/ ExecClear
    \/ ExecThisOr
    \/ ExecAndNot
    \/ ExecCallTriggers
    \/ ExecCallLogic
    \/ ExecCallOther

Spec == Init /\ [][Next]_vars

\* The same behaviours, under the names used for the properties of the loop
\* protocol, of the order of the regions and of the nesting of the regions
SpecLoops == Init /\ [][Next]_vars
SpecOrderOfRegions == Init /\ [][Next]_vars
SpecNesting == Init /\ [][Next]_vars
SpecIterations == Init /\ [][Next]_vars
SpecVectors == Init /\ [][Next]_vars
SpecDpiExport == Init /\ [][Next]_vars

\* The generated functions are sequential code: the statement the program is
\* at is executed
\* The designs whose calls are followed to their end: one with all the loops
\* of _eval, one with a DPI export, timing and debug code
InitTerminates ==
    /\ Init
    /\ \/ design.ico /\ design.obs /\ design.react /\ design.timing = "none"
       \/ ~design.ico /\ ~design.obs /\ design.react /\ design.timing = "trigger"
SpecTerminates == InitTerminates /\ [][Next]_vars /\ WF_vars(Next)

(***************************************************************************)
(* Vocabulary of the properties                                            *)
(***************************************************************************)
\* Entry e of an iteration log records an execution of statement s
Is(e, s) == e[1] = s.op /\ e[2] = s.var /\ e[3] = s.a /\ e[4] = s.b /\ e[5] = s.val
\* The outcome recorded with a test (TRUE with any other statement)
Res(e) == e[6]

\* The first position of statement s in log L, 0 when it is not there
IndexOf(L, s) ==
    IF \E i \in 1 .. Len(L) : Is(L[i], s)
    THEN CHOOSE i \in 1 .. Len(L) : Is(L[i], s) /\ \A j \in 1 .. (i - 1) : ~Is(L[j], s)
    ELSE 0

LogOf(t) == iterLog[Continue(t)]
IterNoOf(t) == iterNo[Continue(t)]

\* The statements makeEvalLoop puts around the trigger and body sections
ClearContinue(t) == setVar(Continue(t), 0)
TestAny(t) == AstIfAny(Triggered(t), <<>>)
SetContinue(t) == setVar(Continue(t), 1)
TestLimit(t) == AstIfGt(IterCount(t), ConvergeLimit, <<>>)
Increment(t) == AstIncr(IterCount(t))

IsFrame(e, t) ==
    /\ e[1] \in {"setVar", "ifAny", "ifGt", "incr"}
    /\ \/ Is(e, ClearContinue(t)) \/ Is(e, TestAny(t)) \/ Is(e, SetContinue(t))
       \/ Is(e, TestLimit(t)) \/ Is(e, Increment(t))

AnyPos(t) == IndexOf(LogOf(t), TestAny(t))

\* Control is at the while of loop t
AtWhile(t) == At("while") /\ Cur.var = Continue(t)
\* ... for the first time since the loop was reached
AtEntry(t) == AtWhile(t) /\ IterNoOf(t) = 0
\* ... after an iteration
AtRetest(t) == AtWhile(t) /\ IterNoOf(t) > 0
\* ... and the loop is about to return normally
AtExit(t) == AtRetest(t) /\ mem[Continue(t)] = 0
\* The current iteration of loop t was triggered
Triggered_(t) == AnyPos(t) > 0 /\ Res(LogOf(t)[AnyPos(t)])

RegionName(t) ==
    CASE t = "stl" -> "Settle"
      [] t = "ico" -> "Input combinational"
      [] t = "act" -> "Active"
      [] t = "nba" -> "NBA"
      [] t = "obs" -> "Observed"
      [] t = "react" -> "Reactive"

\* The loops of the design
Present(t) ==
    CASE t = "stl" -> design.stl
      [] t = "ico" -> design.ico
      [] t = "obs" -> design.obs
      [] t = "react" -> design.react
      [] OTHER -> TRUE

(***************************************************************************)
(* C1                                                                      *)
(***************************************************************************)
\* The statements of the current iteration of loop t, in the order they ran:
\* clear continue; the trigger computation; the any() test; and only when it
\* succeeded: set continue, the limit test, then either the fatal block or the
\* increment followed by the body
IterationOrder(t) ==
    LET L == LogOf(t)
        a == AnyPos(t)
    IN  /\ Len(L) >= 1 => Is(L[1], ClearContinue(t))
        /\ \A i \in 2 .. Len(L) : (a = 0 \/ i < a) => ~IsFrame(L[i], t)
        /\ a > 0 =>
             /\ a > 2
             /\ ~Res(L[a]) => Len(L) = a
             /\ Len(L) >= a + 1 => Is(L[a + 1], SetContinue(t))
             /\ Len(L) >= a + 2 => Is(L[a + 2], TestLimit(t))
             /\ Len(L) >= a + 3 =>
                  IF Res(L[a + 2])
                  THEN \A i \in (a + 3) .. Len(L) : L[i][1] \in {"ifdefDebugCall", "fatal"}
                  ELSE /\ Is(L[a + 3], Increment(t))
                       /\ \A i \in (a + 4) .. Len(L) : ~IsFrame(L[i], t)
        /\ (AtRetest(t) /\ Triggered_(t)) => Len(L) > a + 3

EnteredReset(t) == AtEntry(t) => mem[IterCount(t)] = 0 /\ mem[Continue(t)] = 1

BodyOnlyWhenTriggered(t) ==
    (AnyPos(t) > 0 /\ Len(LogOf(t)) > AnyPos(t)) => VecAny(trig[Triggered(t)])

\* After n iterations: either all n were triggered and the loop goes on, or
\* the n-th was the first one not triggered and the loop returns
ReturnsAtFirstZero(t) ==
    AtRetest(t) =>
        IF mem[Continue(t)] = 1
        THEN mem[IterCount(t)] = IterNoOf(t) /\ VecAny(trig[Triggered(t)])
        ELSE mem[IterCount(t)] = IterNoOf(t) - 1 /\ ~VecAny(trig[Triggered(t)])

\* C1: every loop built by makeEvalLoop is entered with its counter 0 and its
\* continue flag 1; every iteration clears the flag, runs the trigger
\* computation, and only if the vector has a bit set sets the flag, tests the
\* counter against the limit, increments it and runs the body, in this order;
\* the body never runs with an all-zero vector and the loop returns at the
\* first iteration whose trigger computation leaves the vector all-zero.
C1_LoopProtocol ==
    \A t \in Tags :
        /\ IterationOrder(t)
        /\ EnteredReset(t)
        /\ BodyOnlyWhenTriggered(t)
        /\ ReturnsAtFirstZero(t)

\* a nested loop returns after one triggered iteration
C1_Witness == AtExit("nba") /\ mem[IterCount("nba")] = 1 /\ design.react

(***************************************************************************)
(* C2                                                                      *)
(***************************************************************************)
\* The loop whose statement is at the program counter
InLoop(t) == pc.path # <<>> /\ Owner(pc.fn, pc.path) = Continue(t)

\* The loops around the statement at path, innermost included
RECURSIVE Enclosing(_, _)
Enclosing(fn, path) ==
    IF Len(path) <= 1 THEN {}
    ELSE (IF StmtAt(fn, Parent(path)).op = "while"
          THEN {StmtAt(fn, Parent(path)).var} ELSE {})
         \cup Enclosing(fn, Parent(path))

\* Loop t is iterating: control is in it, or at its while after an iteration
Iterating(t) ==
    /\ pc.path # <<>>
    /\ Continue(t) \in Enclosing(pc.fn, pc.path) \/ AtRetest(t)

\* No loop goes on past the limit: the counter never exceeds limit + 1, and a
\* triggered iteration that finds it above the limit takes the fatal block
FatalOverLimit(t) ==
    LET L == LogOf(t)
        a == AnyPos(t)
    IN  /\ mem[IterCount(t)] <= ConvergeLimit + 1
        /\ IterNoOf(t) <= ConvergeLimit + 2
        /\ (a > 0 /\ Len(L) >= a + 2) =>
              (Res(L[a + 2]) <=> IterNoOf(t) = ConvergeLimit + 2)
        /\ (a > 0 /\ Len(L) >= a + 2 /\ Res(L[a + 2])) =>
              /\ mem[IterCount(t)] > ConvergeLimit
              /\ (status = "running" /\ InLoop(t)) => Cur.op \in {"ifdefDebugCall", "fatal"}

FatalNamesRegion ==
    status = "fatal" =>
        \E t \in Tags : /\ InLoop(t)
                        /\ Present(t)
                        /\ fatalMsg = RegionName(t)
                        /\ mem[IterCount(t)] > ConvergeLimit
                        /\ VecAny(trig[Triggered(t)])

NoSilentReturn ==
    /\ \A t \in Tags : AtExit(t) => ~VecAny(trig[Triggered(t)])
    /\ status = "returned" => \A t \in Tags : ~VecAny(trig[Triggered(t)])
    /\ status = "fatal" <=> fatalMsg # ""

\* The dump function has been called when control reaches the fatal call
DumpBeforeFatal ==
    \A t \in Tags :
        (InLoop(t) /\ (At("fatal") \/ status = "fatal")) => dumped = DumpTriggers(t)

\* ... which holds of a build with VL_DEBUG only; another build calls no dump
DumpBeforeFatalIfDebug ==
    \A t \in Tags :
        (InLoop(t) /\ (At("fatal") \/ status = "fatal")) =>
            dumped = IF design.debug THEN DumpTriggers(t) ELSE ""

\* C2 (as stated): in every region's loop a triggered iteration with the
\* counter above the limit ends in the fatal failure whose message names the
\* region, the trigger dump having been called before the fatal call, and no
\* loop returns normally with a trigger bit set.
C2_AsStated ==
    /\ \A t \in Tags : FatalOverLimit(t)
    /\ FatalNamesRegion
    /\ NoSilentReturn
    /\ DumpBeforeFatal

\* C2 (amended): as stated, except that the trigger dump is called before the
\* fatal call only in a build with VL_DEBUG defined; in any other build the
\* fatal call is reached without a dump.
C2_FatalOnLimit ==
    /\ \A t \in Tags : FatalOverLimit(t)
    /\ FatalNamesRegion
    /\ NoSilentReturn
    /\ DumpBeforeFatalIfDebug

\* the NBA loop of a build without VL_DEBUG fails without a dump
C2_Witness ==
    /\ status = "fatal" /\ InLoop("nba") /\ fatalMsg = "NBA"
    /\ ~design.debug /\ dumped = ""

(***************************************************************************)
(* C3                                                                      *)
(***************************************************************************)
\* No executed logic has changed a signal in this call
NoFeedback == fbCount = 0

\* C3: on an input without feedback (running the bodies makes no trigger fire
\* again) every loop runs its body once, in the first triggered iteration, and
\* returns with its continue flag clear from the next iteration.
C3_Convergence ==
    \A t \in Tags :
        (NoFeedback /\ Iterating(t)) =>
            /\ IterNoOf(t) <= 2
            /\ mem[IterCount(t)] <= 1
            /\ IterNoOf(t) = 2 => (mem[IterCount(t)] = 1 /\ ~Triggered_(t))
            /\ (AtRetest(t) /\ IterNoOf(t) = 2) => AtExit(t)

\* the reactive loop returns after its one triggered iteration
C3_Witness ==
    /\ NoFeedback /\ AtExit("react") /\ IterNoOf("react") = 2
    /\ mem[IterCount("react")] = 1

(***************************************************************************)
(* C4, C5, C6: adjacent regions                                            *)
(***************************************************************************)
\* The adjacent pairs <<predecessor, successor>> of the regions of the design
Pairs ==
    {<<"act", "nba">>}
    \cup (IF design.obs THEN {<<"nba", "obs">>} ELSE {})
    \cup (IF design.react
          THEN {<<IF design.obs THEN "obs" ELSE "nba", "react">>} ELSE {})

Pred(q) == q[1]
Succ(q) == q[2]

\* An iteration of the successor up to its any() test
TriggerStep(q) ==
    << ClearContinue(Succ(q)),
       createTriggerClearCall(Triggered(Succ(q))),
       setVar(IterCount(Pred(q)), 0),
       setVar(Continue(Pred(q)), 1),
       AstWhile(Continue(Pred(q)), <<>>),
       TestAny(Succ(q)) >>

\* C4: for each adjacent pair of active, NBA, observed, reactive, in every
\* iteration of the successor's loop the trigger step first clears the
\* successor's vector and then runs the predecessor's whole loop; the
\* successor's body never executes while the predecessor's loop has an
\* iteration pending.
C4_Nesting ==
    \A q \in Pairs :
        LET L == LogOf(Succ(q))
            inPred == pc.path # <<>> /\ Continue(Pred(q)) \in Enclosing(pc.fn, pc.path)
        IN  /\ \A i \in 1 .. Len(L) : i <= 6 => Is(L[i], TriggerStep(q)[i])
            /\ Len(L) >= 5 => Res(L[5])
            /\ inPred => Len(L) = 5
            /\ AtWhile(Pred(q)) => Len(L) = (IF IterNoOf(Pred(q)) = 0 THEN 4 ELSE 5)
            /\ Len(L) >= 6 =>
                 /\ ~inPred
                 /\ mem[Continue(Pred(q))] = 0
                 /\ ~VecAny(trig[Triggered(Pred(q))])

\* the reactive body runs after the observed loop took two iterations
C4_Witness ==
    /\ At("call") /\ Cur.var = EvalFunc("react")
    /\ design.obs /\ IterNoOf("obs") = 2 /\ mem[IterCount("nba")] = 0

Latch(q) == createTriggerSetCall(Triggered(Succ(q)), Triggered(Pred(q)))
Logic(t) == AstCCall(EvalFunc(t))
LatchPos(q) == IndexOf(LogOf(Pred(q)), Latch(q))
LogicPos(q) == IndexOf(LogOf(Pred(q)), Logic(Pred(q)))

\* A triggered iteration of the predecessor runs both steps
BothRun(q) ==
    (AtRetest(Pred(q)) /\ Triggered_(Pred(q))) => (LatchPos(q) > 0 /\ LogicPos(q) > 0)

LogicThenLatch(q) == LatchPos(q) > 0 => (LogicPos(q) > 0 /\ LogicPos(q) < LatchPos(q))
LatchThenLogic(q) == LogicPos(q) > 0 => (LatchPos(q) > 0 /\ LatchPos(q) < LogicPos(q))

\* C5 (as stated): for every adjacent pair the predecessor's body runs the
\* predecessor's logic first and only afterwards ORs the predecessor's vector
\* into the successor's.
C5_AsStated == \A q \in Pairs : BothRun(q) /\ LogicThenLatch(q)

\* C5 (amended): the NBA body and the observed body run their logic first and
\* OR their vector into the successor's afterwards; the active body ORs the
\* active vector into the NBA vector first (right after computing the pre
\* vector) and runs the resume call and the active logic afterwards.
C5_BodyOrder ==
    \A q \in Pairs :
        /\ BothRun(q)
        /\ IF Pred(q) = "act"
           THEN /\ LatchThenLogic(q)
                /\ LatchPos(q) > 0 =>
                     Is(LogOf("act")[LatchPos(q) - 1],
                        createTriggerAndNotCall(Triggered("pre"), Triggered("act"),
                                                Triggered("nba")))
                /\ \A i \in 1 .. Len(LogOf("act")) :
                     Is(LogOf("act")[i], AstCCall("_timing_resume")) => LatchPos(q) < i
           ELSE LogicThenLatch(q)

\* an active body with a resume call has run
C5_Witness ==
    /\ AtRetest("act") /\ Triggered_("act") /\ design.timing # "none"
    /\ design.obs /\ design.react

\* After a triggered iteration of the predecessor the successor holds every
\* bit of the predecessor
Propagated(q) ==
    (AtRetest(Pred(q)) /\ Triggered_(Pred(q))) =>
        trig[Triggered(Pred(q))] \subseteq trig[Triggered(Succ(q))]

\* A step changes the successor's vector either by ORing the predecessor's
\* into it, in the predecessor's body, or by the clear that opens the
\* successor's trigger step
OrOrOwnClear(q) ==
    LET to == Triggered(Succ(q))
        from == Triggered(Pred(q))
    IN  \/ trig'[to] = trig[to]
        \/ /\ trig'[to] = trig[to] \cup trig[from]
           /\ InLoop(Pred(q))
           /\ trig'[from] = trig[from]
        \/ /\ trig'[to] = {}
           /\ InLoop(Succ(q))
           /\ Len(LogOf(Succ(q))) = 1

\* C6: propagation sets successor := successor OR predecessor: every bit of
\* the predecessor is in the successor afterwards, no bit the successor had is
\* cleared, and only the successor's own clear step removes bits from it.
C6_Monotone ==
    /\ [](\A q \in Pairs : Propagated(q))
    /\ [][\A q \in Pairs : OrOrOwnClear(q)]_vars

\* the NBA vector holds bits of an earlier active iteration and of this one
C6_Witness ==
    /\ AtRetest("act") /\ Triggered_("act") /\ IterNoOf("act") = 2
    /\ trig[Triggered("act")] # {}
    /\ trig[Triggered("act")] # trig[Triggered("nba")]

(***************************************************************************)
(* C7                                                                      *)
(***************************************************************************)
\* C7: whenever the reactive body executes, the reactive vector contains the
\* OR of every value the NBA vector had at an NBA body execution since the
\* reactive vector was last cleared, with or without an observed region.
C7_ReactSeesNba ==
    (At("call") /\ Cur.var = EvalFunc("react")) =>
        nbaSeen \subseteq trig[Triggered("react")]

\* the reactive body runs after two NBA bodies with different vectors
C7_Witness ==
    /\ At("call") /\ Cur.var = EvalFunc("react") /\ design.obs
    /\ mem[IterCount("obs")] = 2
    /\ Cardinality(nbaSeen) = 2

(***************************************************************************)
(* C8                                                                      *)
(***************************************************************************)
\* The statements that start loop t
LoopHead(t) ==
    << setVar(IterCount(t), 0), setVar(Continue(t), 1), AstWhile(Continue(t), <<>>) >>

Outermost == IF design.react THEN "react" ELSE IF design.obs THEN "obs" ELSE "nba"

\* The statements of _eval outside every loop
TopOrder ==
    (IF design.ico THEN LoopHead("ico") ELSE <<>>)
    \o LoopHead(Outermost)
    \o (IF design.postponed THEN << AstCCall(EvalFunc("postponed")) >> ELSE <<>>)

NamesOf(t) ==
    {IterCount(t), Continue(t), Triggered(t), EvalTriggers(t), DumpTriggers(t),
     EvalFunc(t), RegionName(t)}

Absent == {t \in Tags \ {"stl"} : ~Present(t)}

\* The regions whose loop _eval runs
EvalRegions == {t \in Tags \ {"stl"} : Present(t)}

\* C8: a call of _eval runs the input combinational loop to completion (if it
\* exists), then the single outermost loop of the regions that exist (reactive,
\* else observed, else NBA, containing the inner ones), then calls the
\* postponed function once (if it exists); a region absent from the design
\* contributes no loop, no clear, no body call and no forward OR, and the
\* postponed function never runs before every region loop has converged.
C8_EvalOrder ==
    pc.fn = "_eval" =>
        LET L == iterLog["top"]
        IN  /\ Len(L) <= Len(TopOrder)
            /\ \A i \in 1 .. Len(L) : Is(L[i], TopOrder[i]) /\ Res(L[i])
            /\ status = "returned" => Len(L) = Len(TopOrder)
            /\ Running =>
                 /\ {Cur.var, Cur.a, Cur.b} \cap UNION {NamesOf(t) : t \in Absent} = {}
                 /\ ~design.postponed => Cur.var # EvalFunc("postponed")
            /\ \A t \in Absent :
                 /\ IterNoOf(t) = 0 /\ LogOf(t) = <<>>
                 /\ trig[Triggered(t)] = {}
                 /\ mem[IterCount(t)] = 0 /\ mem[Continue(t)] = 0
            /\ \A t \in EvalRegions \ {"ico", Outermost} :
                 (pc.path # <<>> /\ (InLoop(t) \/ AtWhile(t))) =>
                     Continue(Outermost) \in Enclosing(pc.fn, pc.path)
            /\ (pc.path # <<>> /\ (AtWhile(Outermost) \/ Iterating(Outermost))) =>
                 (mem[Continue("ico")] = 0 /\ ~VecAny(trig[Triggered("ico")]))
            /\ (At("call") /\ Cur.var = EvalFunc("postponed")) =>
                 /\ Enclosing(pc.fn, pc.path) = {}
                 /\ \A t \in EvalRegions :
                      mem[Continue(t)] = 0 /\ ~VecAny(trig[Triggered(t)])

\* _eval has returned for a design without an observed region
C8_Witness ==
    /\ status = "returned" /\ pc.fn = "_eval"
    /\ design.ico /\ design.postponed /\ ~design.obs /\ design.react
    /\ mem[IterCount("ico")] = 1 /\ mem[IterCount("react")] = 1

(***************************************************************************)
(* C9                                                                      *)
(***************************************************************************)
ComputePre ==
    createTriggerAndNotCall(Triggered("pre"), Triggered("act"), Triggered("nba"))

\* C9: every triggered iteration of the active loop computes
\* pre := act AND NOT nba, where nba is what the earlier iterations of the
\* current run of the active loop have accumulated, this iteration's active
\* bits not yet ORed in; pre holds the active bits not latched before.
C9_PreTriggers ==
    LET L == LogOf("act")
        i == IndexOf(L, ComputePre)
    IN  /\ At("andNot") =>
             /\ Is(Label(Cur, TRUE), ComputePre)
             /\ InLoop("act")
             /\ trig[Triggered("nba")] = actSeen
        /\ (i > 0 /\ LogicPos(<<"act", "nba">>) = 0) =>
             trig[Triggered("pre")] = trig[Triggered("act")] \ actSeen
        /\ (AtRetest("act") /\ Triggered_("act")) => i = AnyPos("act") + 4

\* pre has been computed in a later iteration, from new active bits
C9_Witness ==
    /\ IndexOf(LogOf("act"), ComputePre) > 0 /\ LogicPos(<<"act", "nba">>) = 0
    /\ actSeen # {}
    /\ trig[Triggered("pre")] # {}
    /\ trig[Triggered("pre")] # trig[Triggered("act")]

(***************************************************************************)
(* C10                                                                     *)
(***************************************************************************)
ResumeCall == AstCCall("_timing_resume")
CommitCall == AstCCall("_timing_commit")
ResumePos == IndexOf(LogOf("act"), ResumeCall)
CommitPos == IndexOf(LogOf("act"), CommitCall)
ActTriggersPos == IndexOf(LogOf("act"), AstCCall(EvalTriggers("act")))

\* The resume call is in every triggered active iteration, before the body
ResumeBeforeBody ==
    (AtRetest("act") /\ Triggered_("act")) =>
        (ResumePos > AnyPos("act") /\ ResumePos < LogicPos(<<"act", "nba">>))

\* The commit call is in every active iteration, right after the triggers
CommitAfterTriggers ==
    AnyPos("act") > 0 =>
        (ActTriggersPos = 2 /\ CommitPos = 3 /\ AnyPos("act") = 4)

\* Neither call is anywhere else
OnlyThere ==
    /\ (Running /\ Is(Label(Cur, TRUE), ResumeCall)) =>
          (InLoop("act") /\ Triggered_("act") /\ ResumePos = 0)
    /\ (Running /\ Is(Label(Cur, TRUE), CommitCall)) =>
          (InLoop("act") /\ AnyPos("act") = 0 /\ CommitPos = 0)

\* C10 (as stated): the resume call runs before the active body function in
\* every triggered iteration of the active loop, the commit call runs in the
\* active trigger step after the trigger computation in every iteration, and
\* neither is anywhere else.
C10_AsStated == ResumeBeforeBody /\ CommitAfterTriggers /\ OnlyThere

\* C10 (amended): a design with suspendable processes has the resume call
\* before the active body function in every triggered iteration of the active
\* loop, a design with a trigger scheduler has the commit call in the active
\* trigger step after the trigger computation in every iteration; a design
\* without them has no such call, and neither call is anywhere else.
C10_TimingCalls ==
    /\ IF design.timing # "none" THEN ResumeBeforeBody ELSE ResumePos = 0
    /\ IF design.timing = "trigger" THEN CommitAfterTriggers
       ELSE CommitPos = 0 /\ (AnyPos("act") > 0 => ActTriggersPos = 2 /\ AnyPos("act") = 3)
    /\ OnlyThere
    /\ Running =>
         /\ design.timing = "none" => ~Is(Label(Cur, TRUE), ResumeCall)
         /\ design.timing # "trigger" => ~Is(Label(Cur, TRUE), CommitCall)

\* a triggered active iteration with a resume call and without a commit call
C10_Witness ==
    /\ AtRetest("act") /\ Triggered_("act")
    /\ design.timing = "delay" /\ ResumePos > 0 /\ CommitPos = 0

(***************************************************************************)
(* C11                                                                     *)
(***************************************************************************)
\* The step is the call of the trigger computation function of vector v
OwnCompute(v) ==
    \E k \in Kits : v = Triggered(k) /\ Is(Label(Cur, TRUE), AstCCall(EvalTriggers(k)))

\* The step computes the pre triggers from the active and the NBA triggers
PreCompute(v) == v = Triggered("pre") /\ Is(Label(Cur, TRUE), ComputePre)

\* The step ORs the vector of the predecessor region into v
PropagateForward(v) ==
    \E q \in Pairs :
        /\ v = Triggered(Succ(q))
        /\ Is(Label(Cur, TRUE), Latch(q))
        /\ trig'[v] = trig[v] \cup trig[Triggered(Pred(q))]

\* The step clears v
OwnClear(v) == Is(Label(Cur, TRUE), createTriggerClearCall(v)) /\ trig'[v] = {}

\* C11: every trigger vector (stl, ico, pre, act, nba, obs, react) gets bits
\* set only by its own computation (the trigger computation function of the
\* stl, ico and act vectors, the pre computation of the pre vector) and by the
\* statements that OR the vector of the predecessor region into it; no other
\* statement of the generated program sets a bit of a trigger vector.
C11_VectorWriters ==
    [][\A v \in VecNames :
          /\ (trig'[v] \ trig[v]) # {} =>
                (Running /\ (OwnCompute(v) \/ PreCompute(v) \/ PropagateForward(v)))
          /\ trig'[v] # trig[v] =>
                (Running /\ (OwnCompute(v) \/ PreCompute(v) \/ PropagateForward(v)
                               \/ OwnClear(v)))]_vars

\* every vector of a design with all regions holds a bit
C11_Witness ==
    /\ design.ico /\ design.obs /\ design.react /\ status = "running"
    /\ trig[Triggered("pre")] # {} /\ trig[Triggered("nba")] # {}
    /\ trig[Triggered("obs")] # {} /\ trig[Triggered("react")] # {}

(***************************************************************************)
(* Trigger synthesis: getSenTreesUsedBy, createTriggers, remapSensitivities *)
(***************************************************************************)
\* An AstSenTree of the logic with the AstSenItems sensesp; id stands for the
\* identity of the node
AstSenTree(sensesp, id) == [sensesp |-> sensesp, id |-> id, vscp |-> nullptr, index |-> 0]

\* An AstSenTree with one AstSenItem
SenTree(kind, id) == AstSenTree(<<kind>>, id)

\* The AstSenTree createTriggers makes for a trigger: one ET_TRUE AstSenItem
\* reading bit index of the TRIGGERVEC vscp (getTrig)
TrigSenTree(vscp, index) ==
    [sensesp |-> <<"true">>, id |-> "trigger", vscp |-> vscp, index |-> index]

\* AstSenTree::hasStatic and the like: some AstSenItem is of the kind
hasKind(senTreep, kind) == \E k \in DOMAIN senTreep.sensesp : senTreep.sensesp[k] = kind
hasStatic(senTreep) == hasKind(senTreep, "static")
hasInitial(senTreep) == hasKind(senTreep, "initial")
hasFinal(senTreep) == hasKind(senTreep, "final")
hasCombo(senTreep) == hasKind(senTreep, "combo")
hasClocked(senTreep) == hasKind(senTreep, "clocked")
hasHybrid(senTreep) == hasKind(senTreep, "hybrid")

\* The AstSenTrees of the logic handed to the trigger kits
SenTrees ==
    { SenTree("combo", "c"), SenTree("clocked", "p"), SenTree("clocked", "q"),
      SenTree("hybrid", "h") }

\* The sensesp() of the AstActives of a LogicByScope, in its order
RECURSIVE SeqsUpTo(_, _)
SeqsUpTo(S, n) ==
    IF n = 0 THEN {<<>>}
    ELSE SeqsUpTo(S, n - 1)
         \cup {Append(q, x) : q \in {r \in SeqsUpTo(S, n - 1) : Len(r) = n - 1}, x \in S}

\* Variant: the user1 marks of an earlier traversal are kept
user1InUse_keep(user1) == user1

\* VNUser1InUse: the user1 marks of all nodes are clear after its construction
user1InUse(user1) == {}

\* What getSenTreesUsedBy does with the AstSenTree of one AstActive
getSenTreesUsedBy(result, user1, senTreep) ==
    IF senTreep \in user1 THEN result
    ELSE IF hasClocked(senTreep) \/ hasHybrid(senTreep) THEN Append(result, senTreep)
    ELSE result

\* Variant: the sensitivity triggers are numbered from zero
firstTriggerNumber_zero(m_descriptions) == 0

\* createTriggers: the number of the first sensitivity trigger
firstTriggerNumber(m_descriptions) == Len(m_descriptions)

\* createTriggers: the width of the TRIGGERVEC
nTriggers(senTreeps, m_descriptions) == Len(senTreeps) + Len(m_descriptions)

\* Variant: combinational AstActives are looked up in the map as well
remapSensitivities_noSkip(senTreep, senTreeMap) ==
    IF senTreep \in DOMAIN senTreeMap THEN senTreeMap[senTreep]
    ELSE SenTree("out_of_range", "exception")

\* remapSensitivities: the new sensesp() of one AstActive; "out_of_range" is
\* the exception of senTreeMap.at
remapSensitivities(senTreep, senTreeMap) ==
    IF hasCombo(senTreep) THEN senTreep
    ELSE IF senTreep \in DOMAIN senTreeMap THEN senTreeMap[senTreep]
    ELSE SenTree("out_of_range", "exception")

EmptyMap == [x \in {} |-> x]

\* The state of trigger synthesis for kit over the AstActives lbs
TrigPass(kit, d, lbs, run, first, user1) ==
    [ pass |-> "triggers", kit |-> kit, phase |-> "allocate", run |-> run,
      descriptions |-> extraTriggers(kit, d),   \* what the caller allocates
      m_descriptions |-> <<>>,                  \* ExtraTriggers::m_descriptions
      extraIndex |-> EmptyMap,                  \* the indices allocate returned
      orig |-> lbs,                             \* sensesp() of the AstActives, as given
      lbs |-> lbs,                              \* sensesp() of the AstActives
      i |-> 1,
      user1 |-> user1,                          \* the AstSenTrees with user1 set
      senTreeps |-> <<>>,                       \* result of getSenTreesUsedBy
      triggerNumber |-> 0,
      width |-> 0,                              \* width of the TRIGGERVEC
      map |-> EmptyMap,                         \* TriggerKit::m_map
      first |-> first ]                         \* extraIndex, map, width of the first run

InitTrig ==
    /\ InitRuntime
    /\ ~design.ico /\ ~design.obs /\ ~design.react
    /\ \E kit \in Kits, lbs \in SeqsUpTo(SenTrees, MaxFrags) :
          gen = TrigPass(kit, design, lbs, 1, <<>>, {})

InPhase(pass, phase) == gen.pass = pass /\ gen.phase = phase

\* ExtraTriggers::allocate, for the next extra trigger of the kit
TrigAllocate ==
    /\ InPhase("triggers", "allocate")
    /\ Len(gen.m_descriptions) < Len(gen.descriptions)
    /\ LET description == gen.descriptions[Len(gen.m_descriptions) + 1]
           index == Len(gen.m_descriptions)
       IN  gen' = [gen EXCEPT !.m_descriptions = Append(@, description),
                              !.extraIndex = @ @@ (description :> index)]
    /\ UNCHANGED runtimeVars

\* getSenTreesUsedBy is called: its VNUser1InUse is constructed
TrigGatherStart ==
    /\ InPhase("triggers", "allocate")
    /\ Len(gen.m_descriptions) = Len(gen.descriptions)
    /\ gen' = [gen EXCEPT !.phase = "gather", !.i = 1, !.user1 = user1InUse(@)]
    /\ UNCHANGED runtimeVars

\* getSenTreesUsedBy: one AstActive; at the end createTriggers starts
TrigGather ==
    /\ InPhase("triggers", "gather")
    /\ IF gen.i <= Len(gen.lbs)
       THEN gen' = [gen EXCEPT
                      !.senTreeps = getSenTreesUsedBy(@, gen.user1, gen.lbs[gen.i]),
                      !.user1 = @ \cup {gen.lbs[gen.i]},
                      !.i = @ + 1]
       ELSE gen' = [gen EXCEPT
                      !.phase = "create", !.i = 1,
                      !.width = nTriggers(gen.senTreeps, gen.m_descriptions),
                      !.triggerNumber = firstTriggerNumber(gen.m_descriptions)]
    /\ UNCHANGED runtimeVars

\* createTriggers: one AstSenTree of senTreeps
TrigCreate ==
    /\ InPhase("triggers", "create")
    /\ gen.i <= Len(gen.senTreeps)
    /\ LET senTreep == gen.senTreeps[gen.i]
       IN  IF hasClocked(senTreep) \/ hasHybrid(senTreep)
           THEN gen' = [gen EXCEPT
                          !.map = (senTreep :> TrigSenTree(Triggered(gen.kit), gen.triggerNumber))
                                  @@ @,
                          !.triggerNumber = @ + 1,
                          !.i = @ + 1]
           ELSE gen' = [gen EXCEPT !.phase = "fatal"]
    /\ UNCHANGED runtimeVars

\* The synthesis is run again on the same AstActives and extra triggers
TrigRerun ==
    /\ InPhase("triggers", "create")
    /\ gen.i > Len(gen.senTreeps)
    /\ gen.run = 1
    /\ gen' = TrigPass(gen.kit, design, gen.orig, 2,
                       << gen.extraIndex, gen.map, gen.width >>, gen.user1)
    /\ UNCHANGED runtimeVars

\* remapSensitivities: one AstActive
TrigRemap ==
    /\ \/ InPhase("triggers", "create") /\ gen.i > Len(gen.senTreeps) /\ gen.run = 2
       \/ InPhase("triggers", "remap")
    /\ IF gen.phase = "create"
       THEN gen' = [gen EXCEPT !.phase = "remap", !.i = 1]
       ELSE IF gen.i > Len(gen.lbs)
       THEN gen' = [gen EXCEPT !.phase = "done"]
       ELSE gen' = [gen EXCEPT
                      !.lbs[gen.i] = remapSensitivities(@, gen.map),
                      !.phase = IF remapSensitivities(gen.lbs[gen.i], gen.map).id
                                   = "exception"
                                THEN "fatal" ELSE @,
                      !.i = @ + 1]
    /\ UNCHANGED runtimeVars

NextTrig ==
    \/ TrigAllocate
    \/ TrigGatherStart
    \/ TrigGather
    \/ TrigCreate
    \/ TrigRerun
    \/ TrigRemap

SpecTrig == InitTrig /\ [][NextTrig]_vars

(***************************************************************************)
(* C12: trigger vector layout                                              *)
(***************************************************************************)
Range(f) == {f[x] : x \in DOMAIN f}

\* createTriggers has returned the TriggerKit
TrigComplete ==
    /\ gen.pass = "triggers"
    /\ \/ gen.phase \in {"remap", "done"}
       \/ gen.phase = "create" /\ gen.i > Len(gen.senTreeps)

\* The distinct clocked or hybrid AstSenTrees of the AstActives given
Sensed == {s \in Range(gen.orig) : hasClocked(s) \/ hasHybrid(s)}

\* Position of the first AstActive with AstSenTree s
FirstAt(s) == CHOOSE k \in 1..Len(gen.orig) :
                 gen.orig[k] = s /\ \A j \in 1..(k - 1) : gen.orig[j] # s

\* Number of distinct clocked or hybrid AstSenTrees first met before s
Rank(s) == Cardinality({t \in Sensed : FirstAt(t) < FirstAt(s)})

ExtraCount == Len(gen.descriptions)

\* C12: for a trigger kit with E extra triggers and N distinct clocked or
\* hybrid sensitivity specifications, the vector is N + E wide, the extras
\* have the indices 0..E-1 in allocation order, the specifications have the
\* indices E..E+N-1 in first-encounter order, each exactly once, no index is
\* shared, and the map sends each specification to the per-bit specification
\* reading its own index of the kit's vector.
C12_VectorLayout ==
    TrigComplete =>
       /\ gen.width = Cardinality(Sensed) + ExtraCount
       /\ DOMAIN gen.extraIndex = Range(gen.descriptions)
       /\ \A k \in 1..ExtraCount : gen.extraIndex[gen.descriptions[k]] = k - 1
       /\ DOMAIN gen.map = Sensed
       /\ \A s \in Sensed :
             gen.map[s] = TrigSenTree(Triggered(gen.kit), ExtraCount + Rank(s))
       /\ {gen.map[s].index : s \in Sensed} = ExtraCount..(gen.width - 1)
       /\ \A s, t \in Sensed : gen.map[s].index = gen.map[t].index => s = t
       /\ Range(gen.extraIndex) \cap {gen.map[s].index : s \in Sensed} = {}

\* a kit with two extras, two distinct specifications of which one is used
\* by two AstActives
C12_Witness ==
    /\ TrigComplete
    /\ ExtraCount = 2
    /\ Cardinality(Sensed) = 2
    /\ Len(gen.orig) = 3
    /\ \A k \in 1..3 : ~hasCombo(gen.orig[k])

C14_ComboNotRemapped ==
    gen.pass = "triggers" =>
       /\ gen.phase # "fatal"
       /\ \A s \in DOMAIN gen.map : ~hasCombo(s) /\ (hasClocked(s) \/ hasHybrid(s))
       /\ \A k \in 1..Len(gen.senTreeps) :
             ~hasCombo(gen.senTreeps[k])
             /\ (hasClocked(gen.senTreeps[k]) \/ hasHybrid(gen.senTreeps[k]))
       /\ \A k \in 1..Len(gen.lbs) :
             IF gen.phase \in {"remap", "done"} /\ k < gen.i /\ ~hasCombo(gen.orig[k])
             THEN /\ gen.lbs[k] = gen.map[gen.orig[k]]
                  /\ gen.lbs[k].vscp = Triggered(gen.kit)
             ELSE gen.lbs[k] = gen.orig[k]

C14_Witness ==
    /\ InPhase("triggers", "done")
    /\ \E a, b, c \in 1..Len(gen.orig) :
          /\ hasCombo(gen.orig[a]) /\ gen.lbs[a] = gen.orig[a]
          /\ hasClocked(gen.orig[b]) /\ gen.lbs[b] # gen.orig[b]
          /\ hasHybrid(gen.orig[c]) /\ gen.lbs[c] # gen.orig[c]

(***************************************************************************)
(* gatherLogicClasses                                                      *)
(***************************************************************************)
\* the AstActives of the netlist visited by one gatherLogicClasses
MaxActives == 2

\* The AstScopes of the netlist, in the order of netlistp->foreach
Scopes == <<"TOP", "TOP.sub">>

\* Kinds of AstSenItem; "never" is neither static, initial, final, combo nor
\* clocked
ItemKinds == {"static", "initial", "final", "combo", "clocked", "never"}

\* The sensesp() lists of the AstSenTrees of the AstActives
SenseLists ==
    {<<k>> : k \in ItemKinds}
    \cup {<<k, "clocked">> : k \in ItemKinds}
    \cup {<<"clocked", "initial">>, <<"combo", "final">>}

\* What activep->stmtsp() is: nullptr, or a list starting with such a node
Bodies == {nullptr, "Always", "AlwaysPostponed", "AlwaysObserved", "AlwaysReactive"}

AstActive(id, sensesp, stmtsp) ==
    [id |-> id, sensesp |-> AstSenTree(sensesp, "s"), stmtsp |-> stmtsp]

LogicClassNames ==
    {"m_static", "m_initial", "m_final", "m_comb", "m_postponed", "m_clocked",
     "m_observed", "m_reactive"}

\* UASSERT_OBJ(!senTreep->sensesp()->nextp(), ...)
noNext(senTreep) == Len(senTreep.sensesp) = 1

\* Variant: AlwaysObserved logic is dropped like an empty AstActive
classify_dropObserved(activep) ==
    LET senTreep == activep.sensesp
    IN  IF activep.stmtsp = nullptr \/ activep.stmtsp = "AlwaysObserved" THEN "empty"
        ELSE IF hasStatic(senTreep) THEN IF noNext(senTreep) THEN "m_static" ELSE "fatal"
        ELSE IF hasInitial(senTreep) THEN IF noNext(senTreep) THEN "m_initial" ELSE "fatal"
        ELSE IF hasFinal(senTreep) THEN IF noNext(senTreep) THEN "m_final" ELSE "fatal"
        ELSE IF hasCombo(senTreep)
             THEN IF ~noNext(senTreep) THEN "fatal"
                  ELSE IF activep.stmtsp = "AlwaysPostponed" THEN "m_postponed"
                  ELSE "m_comb"
        ELSE IF ~hasClocked(senTreep) THEN "fatal"
        ELSE IF activep.stmtsp = "AlwaysReactive" THEN "m_reactive"
        ELSE "m_clocked"

\* Variant: no assertion on 'initial' logic and none on the last branch
classify_noAssert(activep) ==
    LET senTreep == activep.sensesp
    IN  IF activep.stmtsp = nullptr THEN "empty"
        ELSE IF hasStatic(senTreep) THEN IF noNext(senTreep) THEN "m_static" ELSE "fatal"
        ELSE IF hasInitial(senTreep) THEN "m_initial"
        ELSE IF hasFinal(senTreep) THEN IF noNext(senTreep) THEN "m_final" ELSE "fatal"
        ELSE IF hasCombo(senTreep)
             THEN IF ~noNext(senTreep) THEN "fatal"
                  ELSE IF activep.stmtsp = "AlwaysPostponed" THEN "m_postponed"
                  ELSE "m_comb"
        ELSE IF activep.stmtsp = "AlwaysObserved" THEN "m_observed"
        ELSE IF activep.stmtsp = "AlwaysReactive" THEN "m_reactive"
        ELSE "m_clocked"

\* gatherLogicClasses, the body of scopep->foreach: where activep goes;
\* "empty" is the vector of AstActives to delete, "fatal" a failed UASSERT_OBJ
classify(activep) ==
    LET senTreep == activep.sensesp
    IN  IF activep.stmtsp = nullptr THEN "empty"
        ELSE IF hasStatic(senTreep) THEN IF noNext(senTreep) THEN "m_static" ELSE "fatal"
        ELSE IF hasInitial(senTreep) THEN IF noNext(senTreep) THEN "m_initial" ELSE "fatal"
        ELSE IF hasFinal(senTreep) THEN IF noNext(senTreep) THEN "m_final" ELSE "fatal"
        ELSE IF hasCombo(senTreep)
             THEN IF ~noNext(senTreep) THEN "fatal"
                  ELSE IF activep.stmtsp = "AlwaysPostponed" THEN "m_postponed"
                  ELSE "m_comb"
        ELSE IF ~hasClocked(senTreep) THEN "fatal"
        ELSE IF activep.stmtsp = "AlwaysObserved" THEN "m_observed"
        ELSE IF activep.stmtsp = "AlwaysReactive" THEN "m_reactive"
        ELSE "m_clocked"

\* LogicClasses result; at the start of gatherLogicClasses
LogicClasses == [c \in LogicClassNames |-> <<>>]

\* The generated program plays no part in the passes below: one design
PlainDesign ==
    /\ ~design.ico /\ ~design.obs /\ ~design.react
    /\ design.timing = "none"

InitGather ==
    /\ InitRuntime
    /\ PlainDesign
    /\ gen = [ pass |-> "gather", phase |-> "scope", scope |-> 1,
               visited |-> <<>>,      \* the AstActives visited, with their scope
               result |-> LogicClasses,
               empty |-> {},          \* the vector empty of the scope
               deleted |-> {} ]       \* the AstActives deleted

\* scopep->foreach visits the next AstActive of the scope
GatherActive ==
    /\ InPhase("gather", "scope")
    /\ Len(gen.visited) < MaxActives
    /\ \E sensesp \in SenseLists, stmtsp \in Bodies :
          LET activep == AstActive(Len(gen.visited) + 1, sensesp, stmtsp)
              scopep == Scopes[gen.scope]
              class == classify(activep)
          IN  gen' = [gen EXCEPT
                        !.visited = Append(@, <<scopep, activep>>),
                        !.phase = IF class = "fatal" THEN "fatal" ELSE @,
                        !.empty = IF class = "empty" THEN @ \cup {activep} ELSE @,
                        !.result = IF class \in LogicClassNames
                                   THEN [@ EXCEPT ![class] = Append(@, <<scopep, activep>>)]
                                   ELSE @]
    /\ UNCHANGED runtimeVars

\* The AstActives of the scope are done: the empty ones are deleted, and
\* netlistp->foreach goes to the next AstScope or gatherLogicClasses returns
GatherScopeEnd ==
    /\ InPhase("gather", "scope")
    /\ gen' = [gen EXCEPT
                 !.deleted = @ \cup gen.empty,
                 !.empty = {},
                 !.scope = IF gen.scope < Len(Scopes) THEN @ + 1 ELSE @,
                 !.phase = IF gen.scope < Len(Scopes) THEN @ ELSE "done"]
    /\ UNCHANGED runtimeVars

NextGather ==
    \/ GatherActive
    \/ GatherScopeEnd

SpecGather == InitGather /\ [][NextGather]_vars

(***************************************************************************)
(* C15: classification totality                                            *)
(***************************************************************************)
\* Number of entries of activep in the class
CountIn(class, activep) ==
    Cardinality({k \in DOMAIN gen.result[class] : gen.result[class][k][2] = activep})

\* Number of entries of activep in all classes
Classified(activep) ==
    Cardinality({<<c, k>> \in {<<c, k>> \in LogicClassNames \X (1..MaxActives + 1) :
                                 k \in DOMAIN gen.result[c]} :
                   gen.result[c][k][2] = activep})

Visited == {gen.visited[k][2] : k \in DOMAIN gen.visited}

\* C15: when gatherLogicClasses returns, every AstActive with statements is
\* in exactly one of the eight classes, once, and is not deleted; an
\* AstActive is deleted unclassified only when it has no statements.
C15_Totality ==
    gen.pass = "gather" =>
       /\ gen.phase = "done" =>
             \A activep \in Visited :
                IF activep.stmtsp # nullptr
                THEN Classified(activep) = 1 /\ activep \notin gen.deleted
                ELSE Classified(activep) = 0 /\ activep \in gen.deleted
       /\ \A activep \in gen.deleted \cup gen.empty :
             activep.stmtsp = nullptr /\ Classified(activep) = 0
       /\ \A activep \in Visited : Classified(activep) <= 1

C15_Witness ==
    /\ InPhase("gather", "done")
    /\ \E a, b \in Visited :
          /\ a.stmtsp = nullptr /\ a \in gen.deleted
          /\ b.stmtsp = "AlwaysObserved" /\ CountIn("m_observed", b) = 1

(***************************************************************************)
(* C16: classification failures                                            *)
(***************************************************************************)
LastActive == gen.visited[Len(gen.visited)][2]

\* The AstActives with statements that no branch can classify
UnknownKind(activep) ==
    LET s == activep.sensesp
    IN  ~(hasStatic(s) \/ hasInitial(s) \/ hasFinal(s) \/ hasCombo(s) \/ hasClocked(s))

ExtraSenses(activep) ==
    LET s == activep.sensesp
    IN  (hasStatic(s) \/ hasInitial(s) \/ hasFinal(s)) /\ Len(s.sensesp) > 1

\* C16: gatherLogicClasses fails, and classifies nothing further, when an
\* AstActive with statements has a sensitivity of no known kind or a static,
\* initial or final sensitivity with more than one item; an AstActive with
\* no statements raises no failure.
C16_Failures ==
    gen.pass = "gather" =>
       /\ \A k \in DOMAIN gen.visited :
             LET activep == gen.visited[k][2]
             IN  /\ (activep.stmtsp # nullptr
                       /\ (UnknownKind(activep) \/ ExtraSenses(activep)))
                    => /\ gen.phase = "fatal"
                       /\ k = Len(gen.visited)
                       /\ Classified(activep) = 0
                 /\ (activep.stmtsp = nullptr /\ k = Len(gen.visited))
                    => gen.phase # "fatal"

C16_Witness ==
    /\ InPhase("gather", "fatal")
    /\ Len(gen.visited) = 2
    /\ gen.visited[1][2].stmtsp = nullptr
    /\ ExtraSenses(gen.visited[1][2])
    /\ UnknownKind(LastActive)

(***************************************************************************)
(* C17: createSettle without combinational and hybrid logic                *)
(***************************************************************************)
\* The functions and variables createSettle makes for the stl trigger kit
SettleKitNodes == kitFuncs("stl") \cup {Triggered("stl"), IterCount("stl"), Continue("stl"),
                                        DidInit("stl")}

\* As stated: without combinational and hybrid logic createSettle creates no
\* function and no trigger vector.
C17_AsStated ==
    ~design.stl => prog.stl.funcs = {} /\ prog.stl.vars = {}

\* C17: without combinational and hybrid logic createSettle creates only the
\* entry point _eval_settle, with no statement: no trigger vector, no trigger
\* computation, dump or logic function and no loop, and a call of
\* _eval_settle returns at once.
C17_SettleNoOp ==
    ~design.stl =>
       /\ prog.stl.funcs = {"_eval_settle"}
       /\ prog.stl.vars = {}
       /\ (prog.stl.funcs \cup prog.stl.vars) \cap SettleKitNodes = {}
       /\ prog._eval_settle = <<>>
       /\ pc.fn = "_eval_settle" => pc.path = <<>>
       /\ trig[Triggered("stl")] = {}
       /\ iterLog[Continue("stl")] = <<>>
       /\ mem[IterCount("stl")] = 0

C17_Witness ==
    /\ ~design.stl
    /\ pc.fn = "_eval_settle"
    /\ status = "returned"
    /\ "_eval_settle" \in prog.stl.funcs

(***************************************************************************)
(* Repeated calls of _eval_settle                                          *)
(***************************************************************************)
InitSettle ==
    /\ Init
    /\ design.stl /\ ~design.ico /\ ~design.obs /\ ~design.react

\* The function has returned and the model calls it again
Recall ==
    /\ status = "returned"
    /\ runNo < MaxRuns
    /\ status' = "idle"
    /\ UNCHANGED << gen, runNo, design, prog, pc, mem, trig, pend, fbCount, fatalMsg, dumped,
                    iterNo, iterLog, nbaSeen, actSeen >>

NextSettle ==
    \/ CallSettle
    \/ Recall
    \/ Return
    \/ ExecSetVar
    \/ ExecWhile
    \/ ExecIfAny
    \/ ExecIfGt
    \/ ExecIncr
    \/ ExecIfdefDebugCall
    \/ ExecFatal
    \/ ExecCallTriggers
    \/ ExecCallLogic

SpecSettle == InitSettle /\ [][NextSettle]_vars

(***************************************************************************)
(* C18: the first iteration trigger of the settle loop                     *)
(***************************************************************************)
\* The next statement is the call of the stl trigger computation / of the
\* stl logic
StlCompute == At("call") /\ Cur.var = EvalTriggers("stl")
StlBody == At("call") /\ Cur.var = EvalFunc("stl")

FirstIterationBit == allocate(extraTriggers("stl", design), firstIteration)
SenseBits(fired) == {Len(extraTriggers("stl", design)) + k : k \in fired}

\* The first trigger computation of a run, and only it, sees the counter 0;
\* the initialization time triggers are not left for a later iteration; the
\* loop does not return before the counter has been incremented
SettleFirst ==
    /\ StlCompute =>
          /\ (iterNo[Continue("stl")] = 1) <=> (mem[IterCount("stl")] = 0)
          /\ mem[IterCount("stl")] > 0 =>
                (initialTrigs(design) = {} \/ mem[DidInit("stl")] = 1)
    /\ (pc.fn = "_eval_settle" /\ status = "returned") => mem[IterCount("stl")] >= 1

\* One step of _eval_settle
SettleStep ==
    /\ StlCompute =>
          /\ (FirstIterationBit \in trig'[Triggered("stl")]) <=> (mem[IterCount("stl")] = 0)
          /\ mem[IterCount("stl")] = 0 => VecAny(trig'[Triggered("stl")])
          /\ mem[IterCount("stl")] > 0 =>
                trig'[Triggered("stl")] = SenseBits(pend["stl"])
          /\ pend'["stl"] = {}
    /\ ~(pend'["stl"] \subseteq pend["stl"]) => (status = "idle" \/ StlBody)
    /\ mem'[IterCount("stl")] # mem[IterCount("stl")] =>
          \/ mem'[IterCount("stl")] = 0
          \/ /\ mem'[IterCount("stl")] = mem[IterCount("stl")] + 1
             /\ StmtAt(pc'.fn, pc'.path).op = "call"
             /\ StmtAt(pc'.fn, pc'.path).var = EvalFunc("stl")

\* C18: in the settle loop the first iteration bit is set by the trigger
\* computation of the first iteration of every run (counter 0) and by no
\* later one, so the logic runs at least once per run; in a later iteration
\* the vector holds only bits of sense expressions, and those became true
\* by a run of the logic since the previous trigger computation.
C18_FirstIteration == [](SettleFirst) /\ [][SettleStep]_vars

\* second run, second iteration, a sense expression made true by the logic
C18_Witness ==
    /\ runNo = 2
    /\ StlCompute
    /\ mem[IterCount("stl")] = 1
    /\ pend["stl"] # {}
    /\ design.xInitialEdge

(***************************************************************************)
(* C19: createInputCombLoop and the DPI export trigger                     *)
(***************************************************************************)
IcoCompute == At("call") /\ Cur.var = EvalTriggers("ico")
ActCompute == At("call") /\ Cur.var = EvalTriggers("act")

\* The index of the DPI export trigger of the ico kit
IcoDpiBit == allocate(extraTriggers("ico", design), dpiExport)

\* The ico loop is among the statements of _eval
HasIcoLoop ==
    \E k \in DOMAIN prog._eval :
       prog._eval[k].var \in {Continue("ico"), IterCount("ico")}

\* createInputCombLoop creates nothing when logicReplicas.m_ico is empty
IcoNoOp ==
    ~design.ico =>
       /\ prog.ico.funcs = {} /\ prog.ico.vars = {}
       /\ ~HasIcoLoop
       /\ trig[Triggered("ico")] = {}
       /\ mem[IterCount("ico")] = 0

\* _eval_triggers__ico copies the flag to its trigger, then resets the flag
IcoCopyThenClear ==
    (IcoCompute /\ design.dpi) =>
       /\ (IcoDpiBit \in trig'[Triggered("ico")]) <=> (mem[dpiExportTriggerVscp] = 1)
       /\ mem'[dpiExportTriggerVscp] = 0

\* The flag is raised by a DPI export only: before the call or from the logic
RaisedByDpi ==
    (mem[dpiExportTriggerVscp] = 0 /\ mem'[dpiExportTriggerVscp] = 1) =>
       (design.dpi /\ (status = "idle" \/ (At("call") /\ Cur.var \in LogicFuncs)))

\* The flag is reset by a trigger computation only
ResetByCompute ==
    (mem[dpiExportTriggerVscp] = 1 /\ mem'[dpiExportTriggerVscp] = 0) =>
       (IcoCompute \/ ActCompute)

\* As stated: every raising of the flag reaches the ico trigger: when there is
\* ico logic, the raised flag is reset by no other statement than the ico
\* trigger computation that sets the trigger from it.
C19_AsStated ==
    [](IcoNoOp)
    /\ [][/\ IcoCopyThenClear
          /\ (design.ico /\ mem[dpiExportTriggerVscp] = 1 /\ mem'[dpiExportTriggerVscp] = 0)
             => IcoCompute]_vars

\* C19: createInputCombLoop creates nothing without ico logic; otherwise, in
\* a design with a DPI export trigger, each ico trigger computation copies
\* the flag to the DPI export trigger of the ico vector and resets the flag,
\* so a raising sets the trigger in at most one ico computation (in none when
\* the act trigger computation, which resets the same flag, runs first), and
\* the trigger is clear after the next computation unless the flag was raised
\* again.
C19_DpiTrigger ==
    [](IcoNoOp) /\ [][IcoCopyThenClear /\ RaisedByDpi /\ ResetByCompute]_vars

\* second ico iteration: the flag raised by the logic, the trigger still set
\* from the raising before the call
C19_Witness ==
    /\ design.ico /\ design.dpi
    /\ IcoCompute
    /\ mem[IterCount("ico")] = 1
    /\ IcoDpiBit \in trig[Triggered("ico")]
    /\ mem[dpiExportTriggerVscp] = 1

(***************************************************************************)
(* orderSequentially                                                       *)
(***************************************************************************)
\* The top functions orderSequentially is called with
TopFuncs == {"_eval_static", "_eval_initial", "_eval_final", "_eval_postponed"}

\* A node of activep->stmtsp(): an AstNodeProcedure or not, with statements
\* or not, suspendable or not, an AstAlways or not
LogicNode(proc, body, suspendable, always) ==
    [proc |-> proc, body |-> body, suspendable |-> suspendable, always |-> always]

LogicKinds ==
    { LogicNode(FALSE, FALSE, FALSE, FALSE),    \* not a procedure
      LogicNode(TRUE, FALSE, FALSE, FALSE),     \* a procedure without statements
      LogicNode(TRUE, TRUE, FALSE, FALSE),      \* a procedure
      LogicNode(TRUE, TRUE, TRUE, FALSE),       \* a suspendable procedure
      LogicNode(TRUE, TRUE, TRUE, TRUE) }       \* a suspendable AstAlways

\* The stmtsp() lists of the AstActives
StmtLists ==
    {<<a>> : a \in LogicKinds}
    \cup {<<a, b>> : a \in LogicKinds,
                     b \in {LogicNode(FALSE, FALSE, FALSE, FALSE),
                            LogicNode(TRUE, TRUE, TRUE, FALSE)}}

\* The name of the sub-function of funcp for the scope; counter -1 is the
\* function of the scope itself, other counters those of the coroutines
subName(funcp, scopep, counter) == << funcp, scopep, counter >>

\* Variant: the call is put in front of the statements of the top function
createNewSubFuncp_callFirst(st, name, rtnType) ==
    [st EXCEPT !.funcs = @ @@ (name :> [rtnType |-> rtnType, stmtsp |-> <<>>]),
               !.calls = << name >> \o @]

\* createNewSubFuncp: the AstCFunc is added and called from the top function
createNewSubFuncp(st, name, rtnType) ==
    [st EXCEPT !.funcs = @ @@ (name :> [rtnType |-> rtnType, stmtsp |-> <<>>]),
               !.calls = Append(@, name)]

\* subFuncp->addStmtsp
addStmtsp(st, name, node) ==
    [st EXCEPT !.funcs[name].stmtsp = Append(@, node)]

\* What is moved into a sub-function: the node itself or the statements of
\* procedure number pos of AstActive number active, possibly inside a while
Moved(active, pos, inWhile) == [active |-> active, pos |-> pos, inWhile |-> inWhile]

\* Variant: a suspendable procedure goes to the function of the scope
orderLogic_noCoroutine(st, scopep, active, pos, logicp) ==
    LET subFuncp == st.user1[scopep]
    IN  IF logicp.proc /\ ~logicp.body THEN st
        ELSE addStmtsp(st, subFuncp, Moved(active, pos, FALSE))

\* Variant: every coroutine body is put inside a while (true)
orderLogic_whileAll(st, scopep, active, pos, logicp) ==
    LET subFuncp == st.user1[scopep]
    IN  IF logicp.proc
        THEN IF ~logicp.body THEN st
             ELSE IF logicp.suspendable
             THEN LET name == subName(st.funcp, scopep, st.user2[scopep])
                      st1 == createNewSubFuncp([st EXCEPT !.slow = FALSE], name, "VlCoroutine")
                      st2 == [st1 EXCEPT !.user2[scopep] = @ + 1]
                  IN  addStmtsp(st2, name, Moved(active, pos, TRUE))
             ELSE addStmtsp(st, subFuncp, Moved(active, pos, FALSE))
        ELSE addStmtsp(st, subFuncp, Moved(active, pos, FALSE))

\* orderSequentially: the body of the loop over the nodes of an AstActive
orderLogic(st, scopep, active, pos, logicp) ==
    LET subFuncp == st.user1[scopep]
    IN  IF logicp.proc
        THEN IF ~logicp.body THEN st
             ELSE IF logicp.suspendable
             THEN LET name == subName(st.funcp, scopep, st.user2[scopep])
                      st1 == createNewSubFuncp([st EXCEPT !.slow = FALSE], name, "VlCoroutine")
                      st2 == [st1 EXCEPT !.user2[scopep] = @ + 1]
                  IN  addStmtsp(st2, name, Moved(active, pos, logicp.always))
             ELSE addStmtsp(st, subFuncp, Moved(active, pos, FALSE))
        ELSE addStmtsp(st, subFuncp, Moved(active, pos, FALSE))

RECURSIVE orderStmts(_, _, _, _, _)
orderStmts(st, scopep, active, stmtsp, pos) ==
    IF pos > Len(stmtsp) THEN st
    ELSE orderStmts(orderLogic(st, scopep, active, pos, stmtsp[pos]),
                    scopep, active, stmtsp, pos + 1)

\* orderSequentially: one pair of the LogicByScope
orderPair(st, scopep, stmtsp) ==
    LET active == Len(st.lbs) + 1
        st1 == IF st.user1[scopep] = nullptr
               THEN [createNewSubFuncp(st, subName(st.funcp, scopep, -1), "")
                       EXCEPT !.user1[scopep] = subName(st.funcp, scopep, -1)]
               ELSE st
        st2 == orderStmts(st1, scopep, active, stmtsp, 1)
    IN  [st2 EXCEPT !.lbs = Append(@, [scopep |-> scopep, stmtsp |-> stmtsp]),
                    !.deleted = @ \cup {active}]

ScopeSet == {Scopes[k] : k \in DOMAIN Scopes}

InitOrder ==
    /\ InitRuntime
    /\ PlainDesign
    /\ \E funcp \in TopFuncs :
          gen = [ pass |-> "order", phase |-> "loop",
                  funcp |-> funcp,      \* the top function
                  slow |-> TRUE,        \* funcp->slow()
                  calls |-> <<>>,       \* the functions called by funcp
                  funcs |-> EmptyMap,   \* the AstCFuncs created
                  user1 |-> [x \in ScopeSet |-> nullptr],
                  user2 |-> [x \in ScopeSet |-> 0],
                  lbs |-> <<>>,         \* the pairs done
                  deleted |-> {} ]      \* the AstActives deleted

\* orderSequentially: the next pair of lbs
OrderPair ==
    /\ InPhase("order", "loop")
    /\ Len(gen.lbs) < MaxActives
    /\ \E scopep \in ScopeSet, stmtsp \in StmtLists :
          gen' = orderPair(gen, scopep, stmtsp)
    /\ UNCHANGED runtimeVars

\* orderSequentially returns; createPostponed calls it with logic only
OrderReturn ==
    /\ InPhase("order", "loop")
    /\ gen.funcp = "_eval_postponed" => gen.lbs # <<>>
    /\ gen' = [gen EXCEPT !.phase = "done"]
    /\ UNCHANGED runtimeVars

NextOrder ==
    \/ OrderPair
    \/ OrderReturn

SpecOrder == InitOrder /\ [][NextOrder]_vars

\* The same behaviours, for the properties of the order of execution and of
\* the coroutines
SpecSourceOrder == InitOrder /\ [][NextOrder]_vars
SpecCoroutines == InitOrder /\ [][NextOrder]_vars

(***************************************************************************)
(* C20: sub-functions of the sequentially ordered classes                  *)
(***************************************************************************)
\* The nodes of the logic given, in input order, as they are to be moved
RECURSIVE Flat(_, _)
Flat(active, pos) ==
    IF active > Len(gen.lbs) THEN <<>>
    ELSE IF pos > Len(gen.lbs[active].stmtsp) THEN Flat(active + 1, 1)
    ELSE << [scopep |-> gen.lbs[active].scopep, logicp |-> gen.lbs[active].stmtsp[pos],
             node |-> Moved(active, pos, gen.lbs[active].stmtsp[pos].always)] >>
         \o Flat(active, pos + 1)

HasStmts(x) == ~x.logicp.proc \/ x.logicp.body
IsSuspendable(x) == x.logicp.proc /\ x.logicp.body /\ x.logicp.suspendable

\* The nodes the function of the scope is to hold, in input order
RECURSIVE Nodes(_)
Nodes(xs) == IF xs = <<>> THEN <<>> ELSE << Head(xs).node >> \o Nodes(Tail(xs))
InScope(scopep) ==
    Nodes(SelectSeq(Flat(1, 1),
                    LAMBDA x : x.scopep = scopep /\ HasStmts(x) /\ ~IsSuspendable(x)))
Coroutines(scopep) ==
    Nodes(SelectSeq(Flat(1, 1), LAMBDA x : x.scopep = scopep /\ IsSuspendable(x)))

ScopesDone == {gen.lbs[k].scopep : k \in DOMAIN gen.lbs}
SubFuncsOf(scopep) == {n \in DOMAIN gen.funcs : n[2] = scopep}
Occurrences(node) ==
    Cardinality({<<n, k>> \in (DOMAIN gen.funcs) \X (1..2 * MaxActives + 2) :
                   k \in DOMAIN gen.funcs[n].stmtsp /\ gen.funcs[n].stmtsp[k] = node})

\* The function of each scope holds the non-suspendable statements of the
\* scope in input order; every function is called once from the top function;
\* every AstActive is deleted; every statement is in one function, once
OrderedByScope ==
    /\ \A scopep \in ScopesDone :
          /\ gen.user1[scopep] = subName(gen.funcp, scopep, -1)
          /\ gen.user1[scopep] \in DOMAIN gen.funcs
          /\ gen.funcs[gen.user1[scopep]].stmtsp = InScope(scopep)
    /\ \A scopep \in ScopeSet \ ScopesDone : SubFuncsOf(scopep) = {}
    /\ \A n \in DOMAIN gen.funcs :
          Cardinality({k \in DOMAIN gen.calls : gen.calls[k] = n}) = 1
    /\ \A k \in DOMAIN gen.calls : gen.calls[k] \in DOMAIN gen.funcs
    /\ gen.deleted = DOMAIN gen.lbs
    /\ \A k \in DOMAIN Flat(1, 1) :
          Occurrences(Flat(1, 1)[k].node) = IF HasStmts(Flat(1, 1)[k]) THEN 1 ELSE 0

\* As stated: in addition, one sub-function per scope
C20_AsStated ==
    gen.pass = "order" =>
       /\ OrderedByScope
       /\ \A scopep \in ScopesDone : Cardinality(SubFuncsOf(scopep)) = 1

\* C20: orderSequentially creates for each scope of the logic one
\* sub-function holding the non-suspendable statements of the scope in input
\* order, and one more for each suspendable procedure with statements, a
\* coroutine holding that procedure alone; each is called exactly once from
\* the top function; every AstActive is deleted and every statement is in
\* exactly one function.
C20_SubFunctions ==
    gen.pass = "order" =>
       /\ OrderedByScope
       /\ \A scopep \in ScopesDone :
             /\ Cardinality(SubFuncsOf(scopep)) = 1 + Len(Coroutines(scopep))
             /\ \A c \in 1..Len(Coroutines(scopep)) :
                   LET name == subName(gen.funcp, scopep, c - 1)
                   IN  /\ name \in DOMAIN gen.funcs
                       /\ gen.funcs[name].rtnType = "VlCoroutine"
                       /\ gen.funcs[name].stmtsp = << Coroutines(scopep)[c] >>

\* two AstActives of one scope, a suspendable procedure between two others
C20_Witness ==
    /\ InPhase("order", "done")
    /\ Len(gen.lbs) = 2
    /\ gen.lbs[1].scopep = gen.lbs[2].scopep
    /\ Len(InScope(gen.lbs[1].scopep)) = 3
    /\ Len(Coroutines(gen.lbs[1].scopep)) = 1
    /\ IsSuspendable(Flat(1, 1)[2])

(***************************************************************************)
(* C21: order of execution of the sequentially ordered classes             *)
(***************************************************************************)
\* What a call of the top function executes: the statements of the called
\* functions, call after call (a coroutine runs when it is called)
RECURSIVE ExecFrom(_)
ExecFrom(k) ==
    IF k > Len(gen.calls) THEN <<>>
    ELSE gen.funcs[gen.calls[k]].stmtsp \o ExecFrom(k + 1)
Exec == ExecFrom(1)

\* The nodes of the input that have statements, in input order
Movable == SelectSeq(Flat(1, 1), HasStmts)

ExecPos(node) == CHOOSE k \in DOMAIN Exec : Exec[k] = node
FirstActive(scopep) == CHOOSE a \in DOMAIN gen.lbs :
                          gen.lbs[a].scopep = scopep
                          /\ \A b \in 1..(a - 1) : gen.lbs[b].scopep # scopep

\* The AstActives of a scope follow one another, as gatherLogicClasses
\* gathers them
Grouped ==
    \A a, b, c \in DOMAIN gen.lbs :
       (a < b /\ b < c /\ gen.lbs[a].scopep = gen.lbs[c].scopep)
       => gen.lbs[b].scopep = gen.lbs[a].scopep

\* y, later in the input than x, is executed before x
Overtakes(x, y) == ExecPos(y.node) < ExecPos(x.node)

Suspendables == SelectSeq(Flat(1, 1), IsSuspendable)

\* The functions that hold the statements of procedure x, in a while or not
HoldersOf(x) ==
    {n \in DOMAIN gen.funcs :
       \E k \in DOMAIN gen.funcs[n].stmtsp :
          /\ gen.funcs[n].stmtsp[k].active = x.node.active
          /\ gen.funcs[n].stmtsp[k].pos = x.node.pos}

\* C22: the statements of a suspendable procedure are never in the function
\* of the scope: they are the only statement of a function of their own,
\* created for the scope with return type VlCoroutine and a name no other
\* function has, called from the top function; they are inside a
\* while (true) exactly when the procedure is an AstAlways; two suspendable
\* procedures never have the same function.
C22_OwnCoroutine ==
    gen.pass = "order" =>
       LET susp == Suspendables
           holders == [k \in DOMAIN susp |-> HoldersOf(susp[k])]
       IN  /\ \A k \in DOMAIN susp :
                 LET x == susp[k]
                 IN  /\ Cardinality(holders[k]) = 1
                     /\ \A n \in holders[k] :
                           /\ n # gen.user1[x.scopep]
                           /\ n[2] = x.scopep
                           /\ gen.funcs[n].rtnType = "VlCoroutine"
                           /\ gen.funcs[n].stmtsp
                                = << Moved(x.node.active, x.node.pos, x.logicp.always) >>
                           /\ \E c \in DOMAIN gen.calls : gen.calls[c] = n
           /\ \A k, l \in DOMAIN susp : k # l => holders[k] \cap holders[l] = {}
           /\ \A scopep \in ScopesDone :
                 /\ gen.funcs[gen.user1[scopep]].rtnType # "VlCoroutine"
                 /\ \A k \in DOMAIN susp : gen.user1[scopep] \notin holders[k]

\* one scope with an AstAlways, two other suspendable procedures and a
\* statement that is not suspendable
C22_Witness ==
    /\ InPhase("order", "done")
    /\ Len(gen.lbs) = 2
    /\ gen.lbs[1].scopep = gen.lbs[2].scopep
    /\ Len(Suspendables) = 3
    /\ Suspendables[1].logicp.always
    /\ ~Suspendables[2].logicp.always
    /\ gen.lbs[2].stmtsp[1] = LogicNode(TRUE, TRUE, FALSE, FALSE)

(***************************************************************************)
(* splitCheck                                                              *)
(***************************************************************************)
MaxSplit == 4      \* --output-split-cfuncs is 0..MaxSplit
MaxStmts == 3      \* statements of the function
MaxNodes == 3      \* nodes of one statement

\* A statement of the function: its place in ofuncp->stmtsp() and its
\* nodeCount()
Item(k, n) == [item |-> k, nodes |-> n]
ItemLists ==
    UNION {{[k \in 1..len |-> Item(k, f[k])] : f \in [1..len -> 1..MaxNodes]}
           : len \in 0..MaxStmts}

RECURSIVE countNodes(_)
countNodes(stmtsp) ==
    IF stmtsp = <<>> THEN 0 ELSE Head(stmtsp).nodes + countNodes(Tail(stmtsp))

\* ofuncp->nodeCount(): the AstCFunc and the nodes of its statements
nodeCount(stmtsp) == 1 + countNodes(stmtsp)

\* ofuncp->name() + "__" + cvtToStr(funcnum)
splitName(ofuncp, funcnum) == << ofuncp, "__", funcnum >>

\* splitCheck: the loop over the unlinked statements; sp is the state of the
\* loop (funcnum, func_stmts, funcp, the functions made, the statements
\* added to ofuncp)
RECURSIVE splitLoop(_, _, _, _)
splitLoop(ofuncp, split, tempp, sp) ==
    IF tempp = <<>> THEN sp
    ELSE LET itemp == Head(tempp)
             stmts == itemp.nodes
             fresh == sp.funcp = nullptr \/ (sp.func_stmts + stmts) > split
             name  == splitName(ofuncp, sp.funcnum)
             sp1   == IF fresh
                      THEN [sp EXCEPT !.funcp = name,
                                      !.funcnum = @ + 1,
                                      !.funcs = @ @@ (name :> <<>>),
                                      !.stmtsp = Append(@, [call |-> name]),
                                      !.func_stmts = 0]
                      ELSE sp
             sp2   == [sp1 EXCEPT !.funcs[sp1.funcp] = Append(@, itemp),
                                  !.func_stmts = @ + stmts]
         IN  splitLoop(ofuncp, split, Tail(tempp), sp2)

\* Variant: a function of exactly split nodes is left alone
splitCheck_atThreshold(ofuncp, split, stmtsp) ==
    IF split = 0 \/ stmtsp = <<>> THEN [stmtsp |-> stmtsp, funcs |-> EmptyMap]
    ELSE IF nodeCount(stmtsp) <= split THEN [stmtsp |-> stmtsp, funcs |-> EmptyMap]
    ELSE LET sp == splitLoop(ofuncp, split, stmtsp,
                             [funcnum |-> 0, func_stmts |-> 0, funcp |-> nullptr,
                              funcs |-> EmptyMap, stmtsp |-> <<>>])
         IN  [stmtsp |-> sp.stmtsp, funcs |-> sp.funcs]

\* splitCheck: the statements of ofuncp afterwards and the functions made
splitCheck(ofuncp, split, stmtsp) ==
    IF split = 0 \/ stmtsp = <<>> THEN [stmtsp |-> stmtsp, funcs |-> EmptyMap]
    ELSE IF nodeCount(stmtsp) < split THEN [stmtsp |-> stmtsp, funcs |-> EmptyMap]
    ELSE LET sp == splitLoop(ofuncp, split, stmtsp,
                             [funcnum |-> 0, func_stmts |-> 0, funcp |-> nullptr,
                              funcs |-> EmptyMap, stmtsp |-> <<>>])
         IN  [stmtsp |-> sp.stmtsp, funcs |-> sp.funcs]

\* A function of schedule() before splitCheck is called on it
InitSplit ==
    /\ InitRuntime
    /\ PlainDesign
    /\ \E ofuncp \in (TopFuncs \ {"_eval_postponed"})
                       \cup {EvalFunc(t) : t \in {"stl", "ico", "act", "nba"}},
          split \in 0..MaxSplit, stmtsp \in ItemLists :
          gen = [pass |-> "split", phase |-> "call", ofuncp |-> ofuncp,
                 split |-> split, before |-> stmtsp,
                 stmtsp |-> stmtsp, funcs |-> EmptyMap]

SplitCheck ==
    /\ InPhase("split", "call")
    /\ LET r == splitCheck(gen.ofuncp, gen.split, gen.stmtsp)
       IN  gen' = [gen EXCEPT !.phase = "done", !.stmtsp = r.stmtsp, !.funcs = r.funcs]
    /\ UNCHANGED runtimeVars

NextSplit == SplitCheck

SpecSplit == InitSplit /\ [][NextSplit]_vars

(***************************************************************************)
(* C23: splitting of large functions                                       *)
(***************************************************************************)
SplitUntouched == gen.stmtsp = gen.before /\ gen.funcs = EmptyMap

NumSplit == Cardinality(DOMAIN gen.funcs)

\* The statements of the functions name__from, name__(from + 1), ... in a row
RECURSIVE SplitConcat(_)
SplitConcat(from) ==
    IF splitName(gen.ofuncp, from) \notin DOMAIN gen.funcs THEN <<>>
    ELSE gen.funcs[splitName(gen.ofuncp, from)] \o SplitConcat(from + 1)

MaxCalls == 3      \* calls of createResume and createCommit

\* No AstSenTree: the sensesp() of an AstCAwait without one
NoSenTree == AstSenTree(<<>>, nullptr)

\* The timing scheduler variables with their data types; the last one has a
\* type that is no scheduler
Scheduler(name, dtype) == [varScopep |-> name, dtype |-> dtype]
isDelayScheduler(schedulerp) == schedulerp.dtype = "VlDelayScheduler"
isTriggerScheduler(schedulerp) == schedulerp.dtype = "VlTriggerScheduler"
isDynamicTriggerScheduler(schedulerp) == schedulerp.dtype = "VlDynamicTriggerScheduler"

\* The nodes the visitors meet.  An AstSel stands for any AstNodeExpr other
\* than an AstNodeVarRef and an AstCAwait; an AstAssign for any statement.
AstNode(type) ==
    [type |-> type, schedulerp |-> Scheduler(nullptr, nullptr), pinsp |-> <<>>,
     sensesp |-> NoSenTree, varScopep |-> nullptr, access |-> nullptr,
     isSuspendable |-> FALSE, stmtsp |-> <<>>,
     name |-> "", joinType |-> "", argsp |-> <<>>]
AstCAwait(schedulerp, pinsp, sensesp) ==
    [AstNode("CAwait") EXCEPT !.schedulerp = schedulerp, !.pinsp = pinsp, !.sensesp = sensesp]
AstVarRef(vscp, access) ==
    [AstNode("VarRef") EXCEPT !.varScopep = vscp, !.access = access]
AstSel(fromp) == [AstNode("Sel") EXCEPT !.stmtsp = << fromp >>]
AstFork(stmtsp) == [AstNode("Fork") EXCEPT !.stmtsp = stmtsp]
AstNodeProcedure(isSuspendable, stmtsp) ==
    [AstNode("NodeProcedure") EXCEPT !.isSuspendable = isSuspendable, !.stmtsp = stmtsp]
AstCFunc(stmtsp) == [AstNode("CFunc") EXCEPT !.stmtsp = stmtsp]

\* The suspension points of the designs explored
AwaitTrigA == AstCAwait(Scheduler("__VtrigSched_a", "VlTriggerScheduler"), << "a" >>,
                        SenTree("clocked", "a"))
AwaitTrigB == AstCAwait(Scheduler("__VtrigSched_b", "VlTriggerScheduler"), <<>>,
                        AstSenTree(<< "clocked", "clocked" >>, "b"))
AwaitDelay == AstCAwait(Scheduler("__VdlySched", "VlDelayScheduler"), << "delay" >>,
                        SenTree("clocked", "dly"))
AwaitDyn   == AstCAwait(Scheduler("__VdynSched", "VlDynamicTriggerScheduler"), <<>>,
                        SenTree("clocked", "dyn"))
AwaitJoin  == AstCAwait(Scheduler("__Vfork_sync", "VlForkSync"), <<>>, NoSenTree)
AwaitOther == AstCAwait(Scheduler("__Vother", "IData"), <<>>, SenTree("clocked", "x"))

\* The statements of the processes explored
TimingBodies ==
    { << AwaitTrigA, AstVarRef("x", "WRITE") >>,
      << AstVarRef("x", "WRITE"), AwaitTrigA >>,
      << AwaitDelay, AstFork(<< AwaitTrigB, AstVarRef("y", "WRITE") >>) >>,
      << AstSel(AstVarRef("x", "WRITE")), AwaitTrigA >>,
      << AwaitDyn, AwaitTrigA, AwaitDyn, AstVarRef("y", "READWRITE") >>,
      << AwaitJoin, AstVarRef("y", "WRITE") >>,
      << AwaitDelay, AstVarRef("x", "READ"), AstVarRef("y", "WRITE"), AstVarRef("y", "WRITE") >>,
      << AwaitOther, AwaitTrigB >> }

\* The statements of the processes that are not suspendable: a suspension
\* point is inside a fork
PlainBodies ==
    { << AstVarRef("x", "WRITE") >>,
      << AstFork(<< AstVarRef("y", "WRITE") >>), AstVarRef("x", "WRITE") >>,
      << AstVarRef("y", "WRITE"), AstFork(<< AwaitTrigB, AstVarRef("x", "WRITE") >>) >>,
      << AstFork(<< AwaitDelay >>), AstVarRef("x", "READ") >> }

\* What is under the netlist: processes, and functions with timing
TimingUnits ==
    {AstNodeProcedure(TRUE, b) : b \in TimingBodies}
    \cup {AstNodeProcedure(FALSE, b) : b \in PlainBodies}
    \cup {AstCFunc(<< AwaitTrigA, AstFork(<< AstVarRef("x", "WRITE") >>) >>)}

Netlists == {<< u >> : u \in TimingUnits} \cup {<< u, v >> : u, v \in TimingUnits}

\* AwaitVisitor::createResumeActive
createResumeActive(st, awaitp) ==
    LET schedulerp == awaitp.schedulerp
        resumep == [name |-> "resume", fromp |-> schedulerp,
                    pinsp |-> IF isTriggerScheduler(schedulerp) THEN awaitp.pinsp ELSE <<>>]
        activep == [name |-> "_timing", sensesp |-> awaitp.sensesp, stmtsp |-> << resumep >>]
    IN  [st EXCEPT !.m_postUpdates =
                      IF ~isTriggerScheduler(schedulerp) /\ isDynamicTriggerScheduler(schedulerp)
                      THEN Append(@, [resumep EXCEPT !.name = "doPostUpdates"])
                      ELSE @,
                   !.m_lbs = Append(@, activep)]

\* Variant: an active for every suspension point with an AstSenTree
visitCAwait_noUser1(st, nodep) ==
    IF nodep.sensesp # NoSenTree
    THEN LET st1 == createResumeActive(st, nodep)
         IN  [st1 EXCEPT !.user1 = @ \cup {nodep.sensesp},
                         !.m_processDomains =
                             IF st.m_inProcess THEN @ \cup {nodep.sensesp} ELSE @]
    ELSE st

\* AwaitVisitor::visit(AstCAwait*)
visitCAwait(st, nodep) ==
    IF nodep.sensesp # NoSenTree
    THEN LET st1 == IF nodep.sensesp \notin st.user1
                    THEN createResumeActive(st, nodep) ELSE st
         IN  [st1 EXCEPT !.user1 = @ \cup {nodep.sensesp},
                         !.m_processDomains =
                             IF st.m_inProcess THEN @ \cup {nodep.sensesp} ELSE @]
    ELSE st

\* AwaitVisitor::visit(AstNodeVarRef*)
visitNodeVarRef(st, nodep) ==
    IF st.m_gatherVars /\ nodep.access \in {"WRITE", "READWRITE"}
       /\ nodep.varScopep \notin st.user2
    THEN [st EXCEPT !.user2 = @ \cup {nodep.varScopep},
                    !.m_writtenBySuspendable = Append(@, nodep.varScopep)]
    ELSE st

\* AwaitVisitor: the visit functions, and iterateChildren over a list
RECURSIVE AwaitVisitor(_, _)
RECURSIVE iterateAwait(_, _)
iterateAwait(st, nodes) ==
    IF nodes = <<>> THEN st
    ELSE iterateAwait(AwaitVisitor(st, Head(nodes)), Tail(nodes))

AwaitVisitor(st, nodep) ==
    CASE nodep.type = "NodeProcedure" ->
           LET st1 == [st EXCEPT !.m_inProcess = TRUE,
                                 !.m_gatherVars = nodep.isSuspendable,
                                 !.user2 = {}]
               st2 == iterateAwait(st1, nodep.stmtsp)
               written == {st2.m_writtenBySuspendable[k] :
                             k \in DOMAIN st2.m_writtenBySuspendable}
               old == st2.m_externalDomains
           IN  [st2 EXCEPT !.m_externalDomains =
                               [vscp \in DOMAIN old \cup written |->
                                  (IF vscp \in DOMAIN old THEN old[vscp] ELSE {})
                                  \cup (IF vscp \in written THEN st2.m_processDomains ELSE {})],
                           !.writtenBySuspendable = @ \cup written,
                           !.m_processDomains = {},
                           !.m_writtenBySuspendable = <<>>,
                           !.m_inProcess = FALSE,
                           !.m_gatherVars = FALSE,
                           !.user2 = {}]
      [] nodep.type = "Fork" ->
           LET st1 == IF st.m_inProcess THEN [st EXCEPT !.m_gatherVars = TRUE] ELSE st
               st2 == iterateAwait(st1, nodep.stmtsp)
           IN  [st2 EXCEPT !.m_gatherVars = st.m_gatherVars]
      [] nodep.type = "CAwait" -> visitCAwait(st, nodep)
      [] nodep.type = "VarRef" -> visitNodeVarRef(st, nodep)
      [] nodep.type = "Sel" -> st
      [] OTHER -> iterateAwait(st, nodep.stmtsp)

\* A TimingKit without logic
EmptyKit ==
    [m_lbs |-> <<>>, m_postUpdates |-> <<>>, m_externalDomains |-> EmptyMap,
     m_resumeFuncp |-> nullptr, m_commitFuncp |-> nullptr,
     funcs |-> EmptyMap,            \* the statements of the AstCFuncs created
     created |-> <<>>,              \* the AstCFuncs in the order of their creation
     writtenBySuspendable |-> {},   \* the AstVars with isWrittenBySuspendable()
     fatal |-> ""]

\* prepareTiming
prepareTiming(usesTiming, netlistp) ==
    IF ~usesTiming THEN EmptyKit
    ELSE LET st == iterateAwait([m_inProcess |-> FALSE, m_gatherVars |-> FALSE,
                                 m_lbs |-> <<>>, m_postUpdates |-> <<>>,
                                 m_externalDomains |-> EmptyMap,
                                 m_processDomains |-> {},
                                 m_writtenBySuspendable |-> <<>>,
                                 writtenBySuspendable |-> {},
                                 user1 |-> {}, user2 |-> {}],
                                netlistp)
         IN  [EmptyKit EXCEPT !.m_lbs = st.m_lbs,
                              !.m_postUpdates = st.m_postUpdates,
                              !.m_externalDomains = st.m_externalDomains,
                              !.writtenBySuspendable = st.writtenBySuspendable]

\* Variant: m_resumeFuncp is not looked at, each call makes a function
TimingKit_createResume_again(kit) ==
    IF kit.m_lbs = <<>> THEN [kit |-> kit, callp |-> nullptr]
    ELSE [kit |-> [kit EXCEPT !.m_resumeFuncp = "_timing_resume",
                              !.created = Append(@, "_timing_resume"),
                              !.funcs = ("_timing_resume" :> kit.m_lbs) @@ @],
          callp |-> "_timing_resume"]

\* TimingKit::createResume: the kit afterwards and the function called
\* (nullptr when no AstCCall is returned)
TimingKit_createResume(kit) ==
    IF kit.m_resumeFuncp = nullptr
    THEN IF kit.m_lbs = <<>> THEN [kit |-> kit, callp |-> nullptr]
         ELSE [kit |-> [kit EXCEPT !.m_resumeFuncp = "_timing_resume",
                                   !.created = Append(@, "_timing_resume"),
                                   !.funcs = @ @@ ("_timing_resume" :> kit.m_lbs)],
               callp |-> "_timing_resume"]
    ELSE [kit |-> kit, callp |-> kit.m_resumeFuncp]

\* new AstLogNot of the expression of an AstSenItem
AstLogNot(sensp) == "!" \o sensp

\* Variant of commitLoop: a commit for every scheduler
RECURSIVE commitLoop_all(_, _)
commitLoop_all(kit, k) ==
    IF k > Len(kit.m_lbs) THEN kit
    ELSE LET activep == kit.m_lbs[k]
             resumep == activep.stmtsp[1]
             schedulerp == resumep.fromp
             kit1 == IF kit.m_commitFuncp = nullptr
                     THEN [kit EXCEPT !.m_commitFuncp = "_timing_commit",
                                      !.created = Append(@, "_timing_commit"),
                                      !.funcs = @ @@ ("_timing_commit" :> <<>>)]
                     ELSE kit
             negSensesp == [activep.sensesp EXCEPT !.sensesp[1] = AstLogNot(@)]
             commitp == [name |-> "commit", fromp |-> schedulerp, pinsp |-> resumep.pinsp]
             newactp == [name |-> "", sensesp |-> negSensesp, stmtsp |-> << commitp >>]
         IN  commitLoop_all([kit1 EXCEPT !.funcs["_timing_commit"] = Append(@, newactp)],
                            k + 1)

\* Variant of commitLoop: the sensitivity of the commit is not negated
RECURSIVE commitLoop_noNeg(_, _)
commitLoop_noNeg(kit, k) ==
    IF k > Len(kit.m_lbs) THEN kit
    ELSE LET activep == kit.m_lbs[k]
             resumep == activep.stmtsp[1]
             schedulerp == resumep.fromp
         IN  IF ~(isDelayScheduler(schedulerp) \/ isTriggerScheduler(schedulerp)
                  \/ isDynamicTriggerScheduler(schedulerp))
             THEN [kit EXCEPT !.fatal = "Unexpected type"]
             ELSE IF ~isTriggerScheduler(schedulerp) THEN commitLoop_noNeg(kit, k + 1)
             ELSE LET kit1 == IF kit.m_commitFuncp = nullptr
                              THEN [kit EXCEPT !.m_commitFuncp = "_timing_commit",
                                               !.created = Append(@, "_timing_commit"),
                                               !.funcs = @ @@ ("_timing_commit" :> <<>>)]
                              ELSE kit
                      commitp == [name |-> "commit", fromp |-> schedulerp,
                                  pinsp |-> resumep.pinsp]
                      newactp == [name |-> "", sensesp |-> activep.sensesp,
                                  stmtsp |-> << commitp >>]
                  IN  commitLoop_noNeg([kit1 EXCEPT !.funcs["_timing_commit"] =
                                                       Append(@, newactp)],
                                       k + 1)

\* TimingKit::createCommit: the loop over m_lbs from entry k on
RECURSIVE commitLoop(_, _)
commitLoop(kit, k) ==
    IF k > Len(kit.m_lbs) THEN kit
    ELSE LET activep == kit.m_lbs[k]
             resumep == activep.stmtsp[1]
             schedulerp == resumep.fromp
         IN  IF ~(isDelayScheduler(schedulerp) \/ isTriggerScheduler(schedulerp)
                  \/ isDynamicTriggerScheduler(schedulerp))
             THEN [kit EXCEPT !.fatal = "Unexpected type"]
             ELSE IF ~isTriggerScheduler(schedulerp) THEN commitLoop(kit, k + 1)
             ELSE LET kit1 == IF kit.m_commitFuncp = nullptr
                              THEN [kit EXCEPT !.m_commitFuncp = "_timing_commit",
                                               !.created = Append(@, "_timing_commit"),
                                               !.funcs = @ @@ ("_timing_commit" :> <<>>)]
                              ELSE kit
                      negSensesp == [activep.sensesp EXCEPT !.sensesp[1] = AstLogNot(@)]
                      commitp == [name |-> "commit", fromp |-> schedulerp,
                                  pinsp |-> resumep.pinsp]
                      newactp == [name |-> "", sensesp |-> negSensesp,
                                  stmtsp |-> << commitp >>]
                  IN  commitLoop([kit1 EXCEPT !.funcs["_timing_commit"] = Append(@, newactp)],
                                 k + 1)

\* TimingKit::createCommit: the kit afterwards and the function called
TimingKit_createCommit(kit) ==
    IF kit.m_commitFuncp = nullptr
    THEN LET kit1 == commitLoop(kit, 1)
         IN  IF kit1.fatal # "" THEN [kit |-> kit1, callp |-> nullptr]
             ELSE [kit |-> kit1, callp |-> kit1.m_commitFuncp]
    ELSE [kit |-> kit, callp |-> kit.m_commitFuncp]

\* Has the tree an AstCAwait, an AstFork?
RECURSIVE hasTiming(_)
hasTiming(nodes) ==
    \E k \in DOMAIN nodes :
       nodes[k].type \in {"CAwait", "Fork"} \/ hasTiming(nodes[k].stmtsp)

InitTiming ==
    /\ InitRuntime
    /\ PlainDesign
    /\ gen = [pass |-> "timing", phase |-> "start", usesTiming |-> FALSE,
              netlistp |-> <<>>, kit |-> EmptyKit, prepared |-> EmptyKit,
              results |-> <<>>]

\* schedule: prepareTiming(netlistp)
PrepareTiming ==
    /\ InPhase("timing", "start")
    /\ \E netlistp \in Netlists, usesTiming \in BOOLEAN :
          /\ ~usesTiming => ~hasTiming(netlistp)
          /\ LET kit == prepareTiming(usesTiming, netlistp)
             IN  gen' = [gen EXCEPT !.phase = "prepared", !.usesTiming = usesTiming,
                                    !.netlistp = netlistp, !.kit = kit, !.prepared = kit]
    /\ UNCHANGED runtimeVars

\* schedule: the 'act' triggers are created for the AstSenTrees of m_lbs too,
\* and remapSensitivities(timingKit.m_lbs, actTrigMap) puts them in place
TimingRemap ==
    /\ InPhase("timing", "prepared")
    /\ LET lbs == gen.kit.m_lbs
           actTrigMap == [senTreep \in {lbs[k].sensesp : k \in DOMAIN lbs} |->
                            TrigSenTree(Triggered("act"),
                                        CHOOSE k \in DOMAIN lbs : lbs[k].sensesp = senTreep)]
       IN  gen' = [gen EXCEPT !.phase = "remapped",
                              !.kit.m_lbs =
                                  [k \in DOMAIN lbs |->
                                     [lbs[k] EXCEPT !.sensesp =
                                         remapSensitivities(@, actTrigMap)]]]
    /\ UNCHANGED runtimeVars

\* createEval: timingKit.createResume(netlistp)
CreateResume ==
    /\ InPhase("timing", "remapped")
    /\ Len(gen.results) < MaxCalls
    /\ gen.kit.fatal = ""
    /\ LET r == TimingKit_createResume(gen.kit)
       IN  gen' = [gen EXCEPT !.kit = r.kit,
                              !.results = Append(@, [fn |-> "createResume", callp |-> r.callp,
                                                     before |-> gen.kit])]
    /\ UNCHANGED runtimeVars

\* createEval: timingKit.createCommit(netlistp)
CreateCommit ==
    /\ InPhase("timing", "remapped")
    /\ Len(gen.results) < MaxCalls
    /\ gen.kit.fatal = ""
    /\ LET r == TimingKit_createCommit(gen.kit)
       IN  gen' = [gen EXCEPT !.kit = r.kit,
                              !.results = Append(@, [fn |-> "createCommit", callp |-> r.callp,
                                                     before |-> gen.kit])]
    /\ UNCHANGED runtimeVars

NextTiming ==
    \/ PrepareTiming
    \/ TimingRemap
    \/ CreateResume
    \/ CreateCommit

SpecTiming == InitTiming /\ [][NextTiming]_vars

(***************************************************************************)
(* C24: one resume statement for each AstSenTree awaited                   *)
(***************************************************************************)
\* The nodes of the trees in the order of a traversal
RECURSIVE Preorder(_)
Preorder(nodes) ==
    IF nodes = <<>> THEN <<>>
    ELSE << Head(nodes) >> \o Preorder(Head(nodes).stmtsp) \o Preorder(Tail(nodes))

\* The suspension points with an AstSenTree, and those of them that are the
\* first with theirs
Waits == SelectSeq(Preorder(gen.netlistp),
                   LAMBDA n : n.type = "CAwait" /\ n.sensesp # NoSenTree)
RECURSIVE FirstOfEach(_, _)
FirstOfEach(awaits, seen) ==
    IF awaits = <<>> THEN <<>>
    ELSE IF Head(awaits).sensesp \in seen THEN FirstOfEach(Tail(awaits), seen)
    ELSE << Head(awaits) >> \o FirstOfEach(Tail(awaits), seen \cup {Head(awaits).sensesp})
FirstWaits == FirstOfEach(Waits, {})

Prepared == gen.pass = "timing" /\ gen.phase # "start" /\ gen.usesTiming

\* C24: after prepareTiming m_lbs has one active for each AstSenTree awaited:
\* the k-th active is that of the k-th suspension point that is the first
\* with its AstSenTree, it has that AstSenTree and the single statement
\* resume() on the scheduler of that suspension point; the other suspension
\* points add nothing.  The function createResume makes holds these actives,
\* all of them, in that order.
C24_OneResumePerSenTree ==
    Prepared =>
       /\ Len(gen.prepared.m_lbs) = Len(FirstWaits)
       /\ \A k \in DOMAIN FirstWaits :
             /\ gen.prepared.m_lbs[k].sensesp = FirstWaits[k].sensesp
             /\ Len(gen.prepared.m_lbs[k].stmtsp) = 1
             /\ gen.prepared.m_lbs[k].stmtsp[1].name = "resume"
             /\ gen.prepared.m_lbs[k].stmtsp[1].fromp = FirstWaits[k].schedulerp
       /\ gen.kit.m_resumeFuncp # nullptr =>
             /\ Len(gen.kit.funcs[gen.kit.m_resumeFuncp]) = Len(FirstWaits)
             /\ \A k \in DOMAIN FirstWaits :
                   /\ gen.kit.funcs[gen.kit.m_resumeFuncp][k].stmtsp
                        = gen.prepared.m_lbs[k].stmtsp
                   /\ gen.kit.funcs[gen.kit.m_resumeFuncp][k].sensesp = gen.kit.m_lbs[k].sensesp

\* suspension points that share an AstSenTree, others with another, one
\* without any, and the resume function made
C24_Witness ==
    /\ Prepared
    /\ gen.kit.m_resumeFuncp # nullptr
    /\ Len(FirstWaits) >= 2
    /\ Len(Waits) > Len(FirstWaits)
    /\ \E k \in DOMAIN Preorder(gen.netlistp) :
          /\ Preorder(gen.netlistp)[k].type = "CAwait"
          /\ Preorder(gen.netlistp)[k].sensesp = NoSenTree

(***************************************************************************)
(* C25: the commit function                                                *)
(***************************************************************************)
Called(fn) == \E k \in DOMAIN gen.results : gen.results[k].fn = fn

SchedulerOf(activep) == activep.stmtsp[1].fromp

\* The resume actives on a trigger scheduler, in the order of m_lbs
TriggerResumes == SelectSeq(gen.kit.m_lbs, LAMBDA a : isTriggerScheduler(SchedulerOf(a)))

\* The resume actives on something that is no scheduler
Unrecognized ==
    {k \in DOMAIN gen.kit.m_lbs :
       LET schedulerp == SchedulerOf(gen.kit.m_lbs[k])
       IN  ~(isDelayScheduler(schedulerp) \/ isTriggerScheduler(schedulerp)
             \/ isDynamicTriggerScheduler(schedulerp))}

\* neg is the AstSenTree senTreep, of one AstSenItem, with the expression of
\* that item negated
NegationOf(neg, senTreep) ==
    /\ Len(senTreep.sensesp) = 1
    /\ neg = [senTreep EXCEPT !.sensesp = << AstLogNot(senTreep.sensesp[1]) >>]

\* C25: once createCommit was called, it has failed with "Unexpected type"
\* exactly when some resume statement is on a variable that is none of the
\* three schedulers; otherwise the commit function exists exactly when some
\* resume statement is on a trigger scheduler, and it holds, in the order of
\* the resume statements on trigger schedulers, one active for each, none for
\* the others: its single statement is commit() on the same scheduler with
\* the same arguments, and it is sensitive to the negation of what the
\* resume statement is sensitive to.
C25_CommitPerTriggerScheduler ==
    (gen.pass = "timing" /\ Called("createCommit")) =>
       /\ gen.kit.fatal = "Unexpected type" <=> Unrecognized # {}
       /\ gen.kit.fatal = "" =>
             /\ gen.kit.m_commitFuncp # nullptr <=> TriggerResumes # <<>>
             /\ gen.kit.m_commitFuncp # nullptr =>
                   LET commits == gen.kit.funcs[gen.kit.m_commitFuncp]
                   IN  /\ Len(commits) = Len(TriggerResumes)
                       /\ \A k \in DOMAIN commits :
                             /\ Len(commits[k].stmtsp) = 1
                             /\ commits[k].stmtsp[1].name = "commit"
                             /\ commits[k].stmtsp[1].fromp = SchedulerOf(TriggerResumes[k])
                             /\ commits[k].stmtsp[1].pinsp = TriggerResumes[k].stmtsp[1].pinsp
                             /\ NegationOf(commits[k].sensesp, TriggerResumes[k].sensesp)

\* resume statements on a dynamic trigger scheduler, a delay scheduler and
\* two trigger schedulers, one of them with arguments
C25_Witness ==
    /\ gen.pass = "timing" /\ Called("createCommit")
    /\ gen.kit.fatal = ""
    /\ Len(gen.kit.m_lbs) = 4
    /\ Len(TriggerResumes) = 2
    /\ \E k \in DOMAIN TriggerResumes : TriggerResumes[k].stmtsp[1].pinsp # <<>>
    /\ Len(gen.kit.funcs["_timing_commit"]) = 2

(***************************************************************************)
(* C26: repeated calls of createResume and createCommit                    *)
(***************************************************************************)
\* The kit after call k
KitAfter(k) == IF k < Len(gen.results) THEN gen.results[k + 1].before ELSE gen.kit

\* The calls that returned
Returned == {k \in DOMAIN gen.results : KitAfter(k).fatal = ""}

TimesCreated(kit, name) == Cardinality({c \in DOMAIN kit.created : kit.created[c] = name})

FuncOf(fn) == IF fn = "createResume" THEN "_timing_resume" ELSE "_timing_commit"

HasTriggerScheduler(kit) ==
    \E a \in DOMAIN kit.m_lbs : isTriggerScheduler(kit.m_lbs[a].stmtsp[1].fromp)

\* C26: whatever the calls of createResume and createCommit, _timing_resume
\* and _timing_commit are created at most once each and nothing else is; a
\* call that returns an AstCCall returns one of the function of its kind; a
\* call that is not the first of its kind creates no function and adds no
\* statement; createResume returns nullptr exactly when m_lbs is empty;
\* createCommit returns nullptr exactly when no resume statement is on a
\* trigger scheduler, and then there is no commit function.
C26_CreatedOnce ==
    gen.pass = "timing" =>
       /\ \A name \in {"_timing_resume", "_timing_commit"} :
             TimesCreated(gen.kit, name) <= 1
       /\ \A c \in DOMAIN gen.kit.created :
             gen.kit.created[c] \in {"_timing_resume", "_timing_commit"}
       /\ \A k \in Returned :
             LET r == gen.results[k]
             IN  /\ r.callp # nullptr =>
                       /\ r.callp = FuncOf(r.fn)
                       /\ TimesCreated(KitAfter(k), r.callp) = 1
                 /\ (\E j \in 1..(k - 1) : gen.results[j].fn = r.fn) =>
                       /\ KitAfter(k).funcs = r.before.funcs
                       /\ KitAfter(k).created = r.before.created
                 /\ r.fn = "createResume" =>
                       (r.callp = nullptr <=> r.before.m_lbs = <<>>)
                 /\ r.fn = "createCommit" =>
                       /\ r.callp = nullptr <=> ~HasTriggerScheduler(r.before)
                       /\ r.callp = nullptr => TimesCreated(KitAfter(k), "_timing_commit") = 0

\* createResume, createCommit and createResume again, each returning a call
C26_Witness ==
    /\ gen.pass = "timing"
    /\ Len(gen.results) = 3
    /\ gen.results[1].fn = "createResume" /\ gen.results[1].callp # nullptr
    /\ gen.results[2].fn = "createCommit" /\ gen.results[2].callp # nullptr
    /\ gen.results[3].fn = "createResume" /\ gen.results[3].callp # nullptr

(***************************************************************************)
(* C27: external domains of the variables written by suspendables          *)
(***************************************************************************)
Signals == {"x", "y"}

Processes == SelectSeq(gen.netlistp, LAMBDA u : u.type = "NodeProcedure")

IsWrite(n) == n.type = "VarRef" /\ n.access \in {"WRITE", "READWRITE"}

\* The variables written somewhere under the nodes
WrittenUnder(nodes) ==
    {Preorder(nodes)[k].varScopep : k \in {j \in DOMAIN Preorder(nodes) : IsWrite(Preorder(nodes)[j])}}

\* The same, leaving out what is below an expression
RECURSIVE Statements(_)
Statements(nodes) ==
    IF nodes = <<>> THEN <<>>
    ELSE << Head(nodes) >>
         \o (IF Head(nodes).type = "Sel" THEN <<>> ELSE Statements(Head(nodes).stmtsp))
         \o Statements(Tail(nodes))
WrittenByStatement(nodes) ==
    {Statements(nodes)[k].varScopep :
       k \in {j \in DOMAIN Statements(nodes) : IsWrite(Statements(nodes)[j])}}

\* The AstForks under the nodes
ForksUnder(nodes) ==
    {Preorder(nodes)[k] : k \in {j \in DOMAIN Preorder(nodes) : Preorder(nodes)[j].type = "Fork"}}

\* The variables written in the process while variables are gathered
GatheredIn(procp, Written(_)) ==
    IF procp.isSuspendable THEN Written(procp.stmtsp)
    ELSE UNION {Written(f.stmtsp) : f \in ForksUnder(procp.stmtsp)}

\* The AstSenTrees of the suspension points of the process
DomainsOf(procp) ==
    {n.sensesp : n \in {Preorder(procp.stmtsp)[k] : k \in DOMAIN Preorder(procp.stmtsp)}
                     \cap {m \in {Preorder(procp.stmtsp)[k] : k \in DOMAIN Preorder(procp.stmtsp)} :
                             m.type = "CAwait" /\ m.sensesp # NoSenTree}}

ExternalDomains(vscp) ==
    IF vscp \in DOMAIN gen.prepared.m_externalDomains
    THEN gen.prepared.m_externalDomains[vscp] ELSE {}

DomainsAsGathered(Written(_)) ==
    /\ \A vscp \in Signals :
          ExternalDomains(vscp)
            = UNION {DomainsOf(Processes[p]) :
                       p \in {q \in DOMAIN Processes : vscp \in GatheredIn(Processes[q], Written)}}
    /\ gen.prepared.writtenBySuspendable
         = {vscp \in Signals :
              \E p \in DOMAIN Processes : vscp \in GatheredIn(Processes[p], Written)}
    /\ DOMAIN gen.prepared.m_externalDomains = gen.prepared.writtenBySuspendable

\* C27, as stated: the external domains of a variable are the AstSenTrees of
\* all suspension points of the processes that write it anywhere while
\* variables are gathered (in a suspendable process, or inside a fork of any
\* process), and exactly the variables so written are marked as written by a
\* suspendable
C27_AsStated == Prepared => DomainsAsGathered(WrittenUnder)

\* The same holds of the writes that are not below another expression
C27_StatementWrites == Prepared => DomainsAsGathered(WrittenByStatement)

\* a suspendable process that writes a part of x (a select of x is assigned)
\* and awaits a trigger; x gets no domain and no mark
C27_Witness ==
    /\ Prepared
    /\ gen.netlistp = << AstNodeProcedure(TRUE, << AstSel(AstVarRef("x", "WRITE")), AwaitTrigA >>) >>
    /\ "x" \notin DOMAIN gen.prepared.m_externalDomains
    /\ "x" \notin gen.prepared.writtenBySuspendable

(***************************************************************************)
(* transformForks                                                          *)
(***************************************************************************)
\* More nodes: an AstIf stands for any statement with statements below it
AstForkOf(joinType, stmtsp) == [AstFork(stmtsp) EXCEPT !.joinType = joinType]
AstBegin(name, stmtsp) == [AstNode("Begin") EXCEPT !.name = name, !.stmtsp = stmtsp]
AstIf(stmtsp) == [AstNode("If") EXCEPT !.stmtsp = stmtsp]
AstVar(name) == [AstNode("Var") EXCEPT !.name = name]
AstCCallOf(funcp, argsp) == [AstNode("CCall") EXCEPT !.name = funcp, !.argsp = argsp]

\* The variables: is the dtype a fork sync, does the name start with
\* "__Vintra", is the variable local to a function
VarInfo(isForkSync, isIntra, isFuncLocal) ==
    [isForkSync |-> isForkSync, isIntra |-> isIntra, isFuncLocal |-> isFuncLocal]
ForkVars ==
    ( "m" :> VarInfo(FALSE, FALSE, FALSE) )            \* a variable of the module
    @@ ( "l" :> VarInfo(FALSE, FALSE, TRUE) )          \* a local of the forking function
    @@ ( "late" :> VarInfo(FALSE, FALSE, TRUE) )       \* a local declared after the fork
    @@ ( "__Vfork_sync" :> VarInfo(TRUE, FALSE, TRUE) )
    @@ ( "__Vintraval" :> VarInfo(FALSE, TRUE, FALSE) )

\* The variable of function funcp made for vscp
ParamOf(funcp, vscp) == funcp \o "." \o vscp

ForkAwait == AstCAwait(Scheduler("__VdlySched", "VlDelayScheduler"), <<>>, NoSenTree)
Ref(vscp) == AstVarRef(vscp, "READWRITE")

\* The forked processes explored
ForkBranches ==
    { AstBegin("b1", << Ref("l"), Ref("m") >>),
      AstBegin("b2", << ForkAwait, Ref("l"), Ref("m") >>),
      AstBegin("b3", << AstIf(<< ForkAwait >>), Ref("__Vfork_sync"), Ref("late") >>),
      AstBegin("b4", << Ref("__Vintraval"), Ref("l"), ForkAwait, Ref("l") >>),
      AstBegin("b5", << AstForkOf("join_none",
                                  << AstBegin("n1", << ForkAwait, Ref("l") >>) >>) >>),
      AstBegin("b6", << AstForkOf("join", << AstBegin("n2", << Ref("l"), ForkAwait >>),
                                             AstBegin("n3", << Ref("m") >>) >>),
                        ForkAwait, Ref("l") >>) }

JoinTypes == {"join", "join_any", "join_none"}

\* The statements of the forking function
ForkFuncs ==
    { << AstVar("l"), AstVar("__Vfork_sync"), AstForkOf(j, bs), Ref("l"), AstVar("late") >> :
        j \in JoinTypes,
        bs \in {<< b >> : b \in ForkBranches}
               \cup ({<< b, c >> : b, c \in ForkBranches} \ {<< b, b >> : b \in ForkBranches}) }

\* Variant: every reference is left as it is
remapRef_skip(rs, refp) == [rs |-> rs, out |-> refp]

\* Variant: every fork is taken for a fork..join
remapRef_anyJoin(rs, refp) ==
    LET vscp == refp.varScopep
        varp == rs.vars[vscp]
        passByValue == varp.isForkSync \/ varp.isIntra
        newvscp == ParamOf(rs.funcp, vscp)
        rs1 == IF vscp \notin DOMAIN rs.user2
               THEN [rs EXCEPT !.vars = @ @@ (newvscp :> [varp EXCEPT !.isFuncLocal = TRUE]),
                               !.argsp = Append(@, [varScopep |-> newvscp,
                                                    direction |-> IF passByValue THEN "INPUT"
                                                                  ELSE "REF"]),
                               !.callArgsp = Append(@, [varScopep |-> vscp,
                                                        access |-> IF passByValue THEN "READ"
                                                                   ELSE "READWRITE"]),
                               !.user2 = @ @@ (vscp :> newvscp)]
               ELSE rs
        remapped == [rs |-> rs1, out |-> [refp EXCEPT !.varScopep = rs1.user2[vscp]]]
    IN  IF passByValue THEN remapped
        ELSE IF vscp \notin rs.user1 \/ ~varp.isFuncLocal THEN [rs |-> rs, out |-> refp]
        ELSE remapped

\* ForkVisitor::remapLocals: the lambda, for one reference; rs holds the
\* variables, the user2 pointers, the arguments of the function and of the
\* call so far
remapRef(rs, refp) ==
    LET vscp == refp.varScopep
        varp == rs.vars[vscp]
        passByValue == varp.isForkSync \/ varp.isIntra
        newvscp == ParamOf(rs.funcp, vscp)
        rs1 == IF vscp \notin DOMAIN rs.user2
               THEN [rs EXCEPT !.vars = @ @@ (newvscp :> [varp EXCEPT !.isFuncLocal = TRUE]),
                               !.argsp = Append(@, [varScopep |-> newvscp,
                                                    direction |-> IF passByValue THEN "INPUT"
                                                                  ELSE "REF"]),
                               !.callArgsp = Append(@, [varScopep |-> vscp,
                                                        access |-> IF passByValue THEN "READ"
                                                                   ELSE "READWRITE"]),
                               !.user2 = @ @@ (vscp :> newvscp)]
               ELSE rs
        remapped == [rs |-> rs1, out |-> [refp EXCEPT !.varScopep = rs1.user2[vscp]]]
    IN  IF passByValue THEN remapped
        ELSE IF vscp \notin rs.user1 \/ ~varp.isFuncLocal THEN [rs |-> rs, out |-> refp]
        ELSE IF rs.joinType = "join" THEN remapped
        ELSE [rs |-> [rs EXCEPT !.unsupported = Append(@, vscp)], out |-> refp]

\* ForkVisitor::remapLocals: funcp->foreach over the statements
RECURSIVE remapLocals(_, _)
remapLocals(rs, nodes) ==
    IF nodes = <<>> THEN [rs |-> rs, out |-> <<>>]
    ELSE LET nodep == Head(nodes)
             r1 == IF nodep.type = "VarRef" THEN remapRef(rs, nodep)
                   ELSE LET below == remapLocals(rs, nodep.stmtsp)
                        IN  [rs |-> below.rs, out |-> [nodep EXCEPT !.stmtsp = below.out]]
             r2 == remapLocals(r1.rs, Tail(nodes))
         IN  [rs |-> r2.rs, out |-> << r1.out >> \o r2.out]

\* Variant: a begin is hoisted whatever is in it
beginHasAwaits_always(flag) == TRUE

\* visit(AstBegin*): if (m_beginHasAwaits)
beginHasAwaits(flag) == flag

\* ForkVisitor: the visit functions.  The result is the state of the visitor
\* and what is in the place of the node afterwards.
RECURSIVE ForkVisitor(_, _)
RECURSIVE iterateFork(_, _)
iterateFork(st, nodes) ==
    IF nodes = <<>> THEN [st |-> st, out |-> <<>>]
    ELSE LET r1 == ForkVisitor(st, Head(nodes))
             r2 == iterateFork(r1.st, Tail(nodes))
         IN  [st |-> r2.st, out |-> r1.out \o r2.out]

\* AstNode::iterateAndNext: what is put in the place of the node iterated is
\* iterated next
iterateReplaced(st, nodes) == iterateFork(st, nodes)

ForkVisitor(st, nodep) ==
    CASE nodep.type = "Var" ->
           [st |-> IF st.m_forkp = nullptr THEN [st EXCEPT !.user1 = @ \cup {nodep.name}] ELSE st,
            out |-> << nodep >>]
      [] nodep.type = "Fork" ->
           IF st.m_forkp # nullptr THEN [st |-> st, out |-> << nodep >>]
           ELSE LET r == iterateFork([st EXCEPT !.m_forkp = nodep.joinType], nodep.stmtsp)
                \* the statements are put in the place of the fork, where the
                \* iteration of the statements of the function goes on
                IN  iterateReplaced([r.st EXCEPT !.m_forkp = st.m_forkp], r.out)
      [] nodep.type = "Begin" ->
           LET r == iterateFork([st EXCEPT !.m_beginHasAwaits = FALSE], nodep.stmtsp)
           IN  IF beginHasAwaits(r.st.m_beginHasAwaits)
               THEN LET m == remapLocals([vars |-> r.st.vars, user1 |-> r.st.user1,
                                          user2 |-> EmptyMap, argsp |-> <<>>,
                                          callArgsp |-> <<>>, funcp |-> nodep.name,
                                          joinType |-> r.st.m_forkp,
                                          unsupported |-> r.st.unsupported],
                                         r.out)
                    IN  [st |-> [r.st EXCEPT
                                   !.vars = m.rs.vars,
                                   !.unsupported = m.rs.unsupported,
                                   !.funcs = @ @@ (nodep.name :>
                                               [rtnType |-> "VlCoroutine",
                                                argsp |-> m.rs.argsp,
                                                stmtsp |-> m.out]),
                                   \* m_funcp->addNextHere(newfuncp)
                                   !.pending = << nodep.name >> \o @],
                         out |-> << AstCCallOf(nodep.name, m.rs.callArgsp) >>]
               ELSE [st |-> r.st, out |-> r.out]
      [] nodep.type = "CAwait" -> [st |-> [st EXCEPT !.m_beginHasAwaits = TRUE], out |-> << nodep >>]
      [] nodep.type \in {"VarRef", "CCall", "Sel"} -> [st |-> st, out |-> << nodep >>]
      [] OTHER ->
           LET r == iterateFork(st, nodep.stmtsp)
           IN  [st |-> r.st, out |-> << [nodep EXCEPT !.stmtsp = r.out] >>]

\* Variant: the functions made are not visited
visitCFunc_notNew(st) ==
    LET funcp == Head(st.pending)
        st1 == [st EXCEPT !.m_funcp = funcp, !.pending = Tail(@)]
        r == iterateFork(st1, st.funcs[funcp].stmtsp)
    IN  [r.st EXCEPT !.funcs[funcp].stmtsp = r.out, !.m_funcp = nullptr,
                     !.visited = Append(@, funcp), !.pending = <<>>]

\* visit(AstCFunc*) of the next function of the scope
visitCFunc(st) ==
    LET funcp == Head(st.pending)
        st1 == [st EXCEPT !.m_funcp = funcp, !.pending = Tail(@),
                          !.user1 = @ \cup {st.funcs[funcp].argsp[k].varScopep :
                                              k \in DOMAIN st.funcs[funcp].argsp}]
        r == iterateFork(st1, st.funcs[funcp].stmtsp)
    IN  [r.st EXCEPT !.funcs[funcp].stmtsp = r.out, !.m_funcp = nullptr,
                     !.visited = Append(@, funcp)]

InitForks ==
    /\ InitRuntime
    /\ PlainDesign
    /\ gen = [pass |-> "forks", phase |-> "start", usesTiming |-> FALSE, input |-> <<>>,
              vars |-> ForkVars, user1 |-> {}, m_forkp |-> nullptr,
              m_beginHasAwaits |-> FALSE, m_funcp |-> nullptr,
              funcs |-> EmptyMap, pending |-> <<>>, visited |-> <<>>, unsupported |-> <<>>]

\* schedule: transformForks(netlistp) is called; the variables of the module
\* come before its functions
TransformForks ==
    /\ InPhase("forks", "start")
    /\ \E stmtsp \in ForkFuncs, usesTiming \in BOOLEAN :
          gen' = [gen EXCEPT !.phase = IF usesTiming THEN "visit" ELSE "done",
                             !.usesTiming = usesTiming,
                             !.input = stmtsp,
                             !.user1 = {"m", "__Vintraval"},
                             !.funcs = ("f" :> [rtnType |-> "", argsp |-> <<>>,
                                                stmtsp |-> stmtsp]),
                             !.pending = IF usesTiming THEN << "f" >> ELSE <<>>]
    /\ UNCHANGED runtimeVars

\* ForkVisitor: the next function of the scope
VisitCFunc ==
    /\ InPhase("forks", "visit")
    /\ gen.pending # <<>>
    /\ gen' = visitCFunc(gen)
    /\ UNCHANGED runtimeVars

\* ForkVisitor: no function is left
ForksDone ==
    /\ InPhase("forks", "visit")
    /\ gen.pending = <<>>
    /\ gen' = [gen EXCEPT !.phase = "done"]
    /\ UNCHANGED runtimeVars

NextForks ==
    \/ TransformForks
    \/ VisitCFunc
    \/ ForksDone

SpecForks == InitForks /\ [][NextForks]_vars

(***************************************************************************)
(* C28: which forked processes become functions                            *)
(***************************************************************************)
ForksTransformed == InPhase("forks", "done") /\ gen.usesTiming

SetOf(seq) == {seq[k] : k \in DOMAIN seq}

\* The forks of the input, nested ones included, and their forked processes
InputForks == {n \in SetOf(Preorder(gen.input)) : n.type = "Fork"}
InputBegins == {n \in SetOf(Preorder(gen.input)) : n.type = "Begin"}

\* The nodes below, not those of the forks nested there
RECURSIVE OutsideForks(_)
OutsideForks(nodes) ==
    IF nodes = <<>> THEN <<>>
    ELSE << Head(nodes) >>
         \o (IF Head(nodes).type = "Fork" THEN <<>> ELSE OutsideForks(Head(nodes).stmtsp))
         \o OutsideForks(Tail(nodes))

AwaitsAnywhere(beginp) == \E n \in SetOf(Preorder(beginp.stmtsp)) : n.type = "CAwait"
AwaitsItself(beginp) == \E n \in SetOf(OutsideForks(beginp.stmtsp)) : n.type = "CAwait"

Hoisted(beginp) == beginp.name \in DOMAIN gen.funcs
HoistedOf(forkp) == {b \in SetOf(forkp.stmtsp) : Hoisted(b)}

\* As stated: a forked process becomes a function exactly when there is a
\* suspension point anywhere in it
C28_AsStated ==
    ForksTransformed =>
       /\ \A b \in InputBegins : Hoisted(b) <=> AwaitsAnywhere(b)
       /\ \A f \in InputForks :
             Cardinality(HoistedOf(f))
               = Cardinality({b \in SetOf(f.stmtsp) : AwaitsAnywhere(b)})

\* C28: a forked process becomes a new VlCoroutine function exactly when it
\* has a suspension point that is not inside a fork nested in it, however
\* deep in other statements and whatever comes before or after it; it is
\* inlined otherwise.  The functions made for a fork are as many as its
\* forked processes with such a suspension point, and no other function is
\* made.
C28_HoistedIffAwaits ==
    ForksTransformed =>
       /\ \A b \in InputBegins :
             /\ Hoisted(b) <=> AwaitsItself(b)
             /\ Hoisted(b) => gen.funcs[b.name].rtnType = "VlCoroutine"
       /\ \A f \in InputForks :
             Cardinality(HoistedOf(f))
               = Cardinality({b \in SetOf(f.stmtsp) : AwaitsItself(b)})
       /\ DOMAIN gen.funcs = {"f"} \cup {b.name : b \in {c \in InputBegins : AwaitsItself(c)}}

\* a fork of a process that awaits inside an if, and of one whose only
\* suspension point is in a fork nested in it
C28_Witness ==
    /\ ForksTransformed
    /\ \E f \in InputForks :
          /\ Len(f.stmtsp) = 2
          /\ f.stmtsp[1].name = "b3" /\ Hoisted(f.stmtsp[1])
          /\ f.stmtsp[2].name = "b5" /\ ~Hoisted(f.stmtsp[2])
    /\ "n1" \in DOMAIN gen.funcs

(***************************************************************************)
(* C29: no fork is left                                                    *)
(***************************************************************************)
\* What the statements are to become: each fork gives way, in its place, to
\* what its forked processes give in their order, a call of the function of
\* those that become one, the statements of the others
RECURSIVE Lowered(_)
Lowered(nodes) ==
    IF nodes = <<>> THEN <<>>
    ELSE LET nodep == Head(nodes)
         IN  (CASE nodep.type = "Fork" -> Lowered(nodep.stmtsp)
                [] nodep.type = "Begin" ->
                     IF AwaitsItself(nodep) THEN << AstCCallOf(nodep.name, <<>>) >>
                     ELSE Lowered(nodep.stmtsp)
                [] OTHER -> << [nodep EXCEPT !.stmtsp = Lowered(nodep.stmtsp)] >>)
             \o Lowered(Tail(nodes))

\* The statements without the variables referred to and handed over
RECURSIVE Skeleton(_)
Skeleton(nodes) ==
    IF nodes = <<>> THEN <<>>
    ELSE << [type |-> Head(nodes).type, name |-> Head(nodes).name,
             stmtsp |-> Skeleton(Head(nodes).stmtsp)] >>
         \o Skeleton(Tail(nodes))

\* C29: when transformForks is done no AstFork and no AstBegin is left in any
\* function, forks nested in a forked process included: the statements of
\* the forking function, and of each function made, are those they had with
\* every fork replaced in its place, in the order of its forked processes,
\* by the statements of those inlined and by a call statement (never
\* awaited) of the function of each of the others.
C29_NoForkLeft ==
    ForksTransformed =>
       /\ \A n \in DOMAIN gen.funcs :
             \A s \in SetOf(Preorder(gen.funcs[n].stmtsp)) : s.type \notin {"Fork", "Begin"}
       /\ Skeleton(gen.funcs["f"].stmtsp) = Skeleton(Lowered(gen.input))
       /\ \A b \in InputBegins :
             Hoisted(b) => Skeleton(gen.funcs[b.name].stmtsp) = Skeleton(Lowered(b.stmtsp))

\* a fork nested in a forked process that is inlined, and one nested in a
\* forked process that became a function
C29_Witness ==
    /\ ForksTransformed
    /\ \E f \in InputForks :
          /\ Len(f.stmtsp) = 2
          /\ f.stmtsp[1].name = "b5" /\ f.stmtsp[2].name = "b6"
    /\ {"n1", "n2", "b6"} \subseteq DOMAIN gen.funcs
    /\ gen.visited = << "f", "n1", "b6", "n2" >>

(***************************************************************************)
(* C30: the variables handed to the function of a forked process           *)
(***************************************************************************)
\* The fork of the forking function and the variables declared before it
TopFork == CHOOSE n \in SetOf(gen.input) : n.type = "Fork"
DeclaredBefore == {"m", "__Vintraval", "l", "__Vfork_sync"}

RefsIn(nodes) == {n.varScopep : n \in {r \in SetOf(Preorder(nodes)) : r.type = "VarRef"}}

PassByValue(vscp) == ForkVars[vscp].isForkSync \/ ForkVars[vscp].isIntra

\* The call of function funcp in the forking function
CallOf(funcp) ==
    CHOOSE n \in SetOf(Preorder(gen.funcs["f"].stmtsp)) : n.type = "CCall" /\ n.name = funcp

\* vscp is handed to the function of beginp, in that direction, and the
\* function refers to its own variable
Passed(beginp, vscp, direction) ==
    /\ \E k \in DOMAIN gen.funcs[beginp.name].argsp :
          /\ gen.funcs[beginp.name].argsp[k]
               = [varScopep |-> ParamOf(beginp.name, vscp), direction |-> direction]
          /\ CallOf(beginp.name).argsp[k]
               = [varScopep |-> vscp,
                  access |-> IF direction = "INPUT" THEN "READ" ELSE "READWRITE"]
    /\ vscp \notin RefsIn(gen.funcs[beginp.name].stmtsp)

NotPassed(beginp, vscp) ==
    /\ \A k \in DOMAIN gen.funcs[beginp.name].argsp :
          gen.funcs[beginp.name].argsp[k].varScopep # ParamOf(beginp.name, vscp)
    /\ \A k \in DOMAIN CallOf(beginp.name).argsp :
          CallOf(beginp.name).argsp[k].varScopep # vscp

\* As stated: every variable declared before the fork and referred to in the
\* forked process is handed over, by value or by reference
C30_AsStated ==
    ForksTransformed =>
       \A b \in SetOf(TopFork.stmtsp) :
          Hoisted(b) =>
             \A vscp \in RefsIn(b.stmtsp) \cap DeclaredBefore :
                Passed(b, vscp, IF PassByValue(vscp) THEN "INPUT" ELSE "REF")

\* C30: of the variables referred to in a forked process that became a
\* function, a fork sync and an intra-assignment temporary are handed over by
\* value; a variable local to the forking function and declared before the
\* fork is handed over by reference when the fork is a fork..join, and with
\* another fork it is not handed over, the reference stays and the access is
\* reported as unsupported; every other variable is referred to as before.
\* What is handed over is an argument of the function and of the call, once,
\* and the references in the function are to the argument.
C30_PassedLocals ==
    ForksTransformed =>
       \A b \in SetOf(TopFork.stmtsp) :
          Hoisted(b) =>
             /\ \A vscp \in RefsIn(b.stmtsp) :
                   IF PassByValue(vscp) THEN Passed(b, vscp, "INPUT")
                   ELSE IF vscp \in DeclaredBefore /\ ForkVars[vscp].isFuncLocal
                   THEN IF TopFork.joinType = "join" THEN Passed(b, vscp, "REF")
                        ELSE NotPassed(b, vscp) /\ vscp \in SetOf(gen.unsupported)
                   ELSE NotPassed(b, vscp)
             /\ Len(gen.funcs[b.name].argsp) = Len(CallOf(b.name).argsp)
             /\ \A k, l \in DOMAIN gen.funcs[b.name].argsp :
                   gen.funcs[b.name].argsp[k].varScopep = gen.funcs[b.name].argsp[l].varScopep
                   => k = l
             /\ \A k \in DOMAIN gen.funcs[b.name].argsp :
                   \E vscp \in RefsIn(b.stmtsp) :
                      gen.funcs[b.name].argsp[k].varScopep = ParamOf(b.name, vscp)

\* a fork..join of a process that refers to a temporary and twice to a local,
\* and of one that refers to a local and to a variable of the module
C30_Witness ==
    /\ ForksTransformed
    /\ TopFork.joinType = "join"
    /\ Len(TopFork.stmtsp) = 2
    /\ TopFork.stmtsp[1].name = "b4" /\ TopFork.stmtsp[2].name = "b2"
    /\ gen.funcs["b4"].argsp = << [varScopep |-> "b4.__Vintraval", direction |-> "INPUT"],
                                  [varScopep |-> "b4.l", direction |-> "REF"] >>
    /\ gen.funcs["b2"].argsp = << [varScopep |-> "b2.l", direction |-> "REF"] >>

(***************************************************************************)
(* C31: a local of the forking process referred to in a fork that does not *)
(* join                                                                    *)
(***************************************************************************)
\* The positions, in the statements of a forked process, of the references
\* to a local of the forking function declared before the fork that is not
\* handed over by value
LocalRefs(nodes) ==
    {k \in DOMAIN Preorder(nodes) :
        /\ Preorder(nodes)[k].type = "VarRef"
        /\ Preorder(nodes)[k].varScopep \in DeclaredBefore
        /\ ForkVars[Preorder(nodes)[k].varScopep].isFuncLocal
        /\ ~PassByValue(Preorder(nodes)[k].varScopep)}

\* The forked processes that became a function, of the forks that do not join
HoistedOfNonJoin ==
    UNION {HoistedOf(f) : f \in {g \in InputForks : g.joinType # "join"}}

RECURSIVE NumLocalRefs(_)
NumLocalRefs(begins) ==
    IF begins = {} THEN 0
    ELSE LET b == CHOOSE c \in begins : TRUE
         IN  Cardinality(LocalRefs(b.stmtsp)) + NumLocalRefs(begins \ {b})

\* C31: each reference, in a forked process of a fork..join_any or
\* fork..join_none that became a function, to a local of the forking function
\* declared before the fork and not handed over by value is reported as
\* unsupported, once per reference; no argument is made for the variable, the
\* reference stays as it was, and the other references, forked processes and
\* forks are transformed as they are without the report.  In a fork..join
\* the reference is not reported and the variable is handed over by
\* reference.
C31_UnsupportedLocal ==
    ForksTransformed =>
       /\ Len(gen.unsupported) = NumLocalRefs(HoistedOfNonJoin)
       /\ \A b \in SetOf(TopFork.stmtsp) :
             Hoisted(b) =>
                \A k \in LocalRefs(b.stmtsp) :
                   LET vscp == Preorder(b.stmtsp)[k].varScopep
                   IN  IF TopFork.joinType = "join"
                       THEN Passed(b, vscp, "REF")
                       ELSE /\ NotPassed(b, vscp)
                            /\ vscp \in SetOf(gen.unsupported)
                            /\ vscp \in RefsIn(gen.funcs[b.name].stmtsp)
       /\ \A b \in InputBegins : Hoisted(b) <=> AwaitsItself(b)
       /\ \A b \in SetOf(TopFork.stmtsp) :
             Hoisted(b) =>
                \A vscp \in {v \in RefsIn(b.stmtsp) : PassByValue(v)} : Passed(b, vscp, "INPUT")
       /\ gen.pending = <<>>

\* a fork..join_any of a process that refers to a temporary and twice to a
\* local, and of one that refers once to the local: three reports, the
\* temporary is handed over and the second process became a function too
C31_Witness ==
    /\ ForksTransformed
    /\ TopFork.joinType = "join_any"
    /\ Len(TopFork.stmtsp) = 2
    /\ TopFork.stmtsp[1].name = "b4" /\ TopFork.stmtsp[2].name = "b2"
    /\ gen.unsupported = << "l", "l", "l" >>
    /\ gen.funcs["b4"].argsp = << [varScopep |-> "b4.__Vintraval", direction |-> "INPUT"] >>
    /\ gen.funcs["b2"].argsp = <<>>
    /\ "l" \in RefsIn(gen.funcs["b4"].stmtsp)

(***************************************************************************)
(* createTriggers: the statements of the trigger computation function and  *)
(* of the trigger dump function, and what they do when they run            *)
(***************************************************************************)
MaxEvals == 3      \* calls of the trigger computation function

\* A statement of the two functions
KitStmt(op, index, valp, thensp, elsesp, text) ==
    [op |-> op, index |-> index, valp |-> valp, thensp |-> thensp, elsesp |-> elsesp,
     text |-> text]

\* setTrig: the TRIGGERVEC set(index, valp); valp is << "build", k >> for the
\* expression SenExprBuilder::build gave for the k-th AstSenTree
setTrig(index, valp) == KitStmt("set", index, valp, <<>>, <<>>, "")

\* getTrig: bit (index % 64) of word (index / 64) of the TRIGGERVEC
getTrig(index) == [wordIndex |-> index \div 64, bitIndex |-> index % 64]

\* VlTriggerVec::word
VecWord(vec, wordIndex) ==
    {b - 64 * wordIndex : b \in {c \in vec : c \div 64 = wordIndex}}

RECURSIVE cvtToStr(_)
cvtToStr(n) ==
    LET digits == << "0", "1", "2", "3", "4", "5", "6", "7", "8", "9" >>
    IN  IF n < 10 THEN digits[n + 1] ELSE cvtToStr(n \div 10) \o digits[(n % 10) + 1]

\* V3EmitV::verilogForTree of an AstSenTree
verilogForTree(senTreep) == "@(" \o senTreep.id \o ")"

\* Variant: the line is printed whatever the trigger is
addDebug_always(name, index, text) ==
    KitStmt("text", 0, <<>>, <<>>, <<>>,
            "'" \o name \o "' region trigger index " \o cvtToStr(index) \o " is active"
            \o (IF text = "" THEN "" ELSE ": " \o text))

\* addDebug: the statement added to the dump function for a trigger
addDebug(name, index, text) ==
    KitStmt("ifTrig", getTrig(index), <<>>,
            << KitStmt("text", 0, <<>>, <<>>, <<>>,
                       "'" \o name \o "' region trigger index " \o cvtToStr(index)
                       \o " is active" \o (IF text = "" THEN "" ELSE ": " \o text)) >>,
            <<>>, "")

NoTriggersActive == "No triggers active"

\* Variant: only the global option gives an initialization time trigger
initialTrig_optionOnly(second, xInitialEdge) == xInitialEdge

\* createTriggers: if (pair.second || v3Global.opt.xInitialEdge())
initialTrig(second, xInitialEdge) == second \/ xInitialEdge

\* createTriggers: the two functions made for the AstSenTrees senTreeps (each
\* with the flag "second" that SenExprBuilder::build returns for it) and the
\* extra triggers m_descriptions; postUpdates are the statements of
\* getAndClearPostUpdates
createTriggers(name, senTreeps, m_descriptions, postUpdates, xInitialEdge, protectIds) ==
    LET n == Len(m_descriptions)
        compute == [k \in DOMAIN senTreeps |-> setTrig(n + k - 1, << "build", k >>)]
        initialTrigsp ==
            SelectSeq([k \in DOMAIN senTreeps |-> setTrig(n + k - 1, << "const", 1 >>)],
                      LAMBDA s : initialTrig(senTreeps[s.index - n + 1].second, xInitialEdge))
        init == IF initialTrigsp # <<>>
                THEN << KitStmt("ifNot", 0, DidInit(name),
                                << KitStmt("setVar", 0, << DidInit(name), 1 >>, <<>>, <<>>, "") >>
                                \o initialTrigsp,
                                <<>>, "") >>
                ELSE <<>>
        dump == << KitStmt("ifAny", 0, <<>>, <<>>,
                           << KitStmt("text", 0, <<>>, <<>>, <<>>, NoTriggersActive) >>, "") >>
                \o [i \in DOMAIN m_descriptions |->
                      addDebug(name, i - 1,
                               "Internal '" \o name \o "' trigger - " \o m_descriptions[i])]
                \o [k \in DOMAIN senTreeps |->
                      addDebug(name, n + k - 1, verilogForTree(senTreeps[k]))]
    IN  [m_funcp |-> compute \o postUpdates \o init
                     \o << KitStmt("debugCall", 0, <<>>, <<>>, <<>>, "") >>,
         m_dumpp |-> IF protectIds THEN <<>> ELSE dump]

\* TriggerKit::addFirstIterationTriggerAssignment
addFirstIterationTriggerAssignment(m_funcp, index) ==
    << setTrig(index, << "counterIsZero" >>) >> \o m_funcp

\* TriggerKit::addDpiExportTriggerAssignment
addDpiExportTriggerAssignment(m_funcp, index) ==
    << setTrig(index, << "dpiExportTrigger" >>),
       KitStmt("setVar", 0, << dpiExportTriggerVscp, 0 >>, <<>>, <<>>, "") >> \o m_funcp

\* What the statements do when they run: ks holds the TRIGGERVEC, the did
\* init flag, the DPI export flag, the statements run and the lines printed;
\* env holds what the sense expressions evaluate to and the dump function
RECURSIVE kitExec(_, _, _)
kitExec(stmts, ks, env) ==
    IF stmts = <<>> THEN ks
    ELSE LET s == Head(stmts)
             ks0 == [ks EXCEPT !.trace = Append(@, s)]
             ks1 ==
               CASE s.op = "set" ->
                      [ks0 EXCEPT !.vec =
                          VecSet(@, s.index,
                                 CASE s.valp[1] = "build" -> s.valp[2] \in env.fired
                                   [] s.valp[1] = "const" -> s.valp[2] # 0
                                   [] s.valp[1] = "counterIsZero" -> env.counter = 0
                                   [] OTHER -> ks.dpiFlag # 0)]
                 [] s.op = "setVar" ->
                      IF s.valp[1] = dpiExportTriggerVscp
                      THEN [ks0 EXCEPT !.dpiFlag = s.valp[2]]
                      ELSE [ks0 EXCEPT !.didInit = s.valp[2]]
                 [] s.op = "ifNot" ->
                      IF ks.didInit = 0 THEN kitExec(s.thensp, ks0, env) ELSE ks0
                 [] s.op = "ifAny" ->
                      kitExec(IF VecAny(ks.vec) THEN s.thensp ELSE s.elsesp, ks0, env)
                 [] s.op = "ifTrig" ->
                      kitExec(IF s.index.bitIndex \in VecWord(ks.vec, s.index.wordIndex)
                              THEN s.thensp ELSE s.elsesp, ks0, env)
                 [] s.op = "text" -> [ks0 EXCEPT !.printed = Append(@, s.text)]
                 [] s.op = "debugCall" ->
                      IF env.debug
                      THEN kitExec(env.m_dumpp, [ks0 EXCEPT !.printed = <<>>, !.dumpRan = TRUE],
                                   env)
                      ELSE ks0
                 [] OTHER -> ks0
         IN  kitExec(Tail(stmts), ks1, env)

\* The AstSenTrees handed to createTriggers with what build reports for each
KitSenTreeps ==
    {<<>>}
    \cup {<< [id |-> "p", second |-> a] >> : a \in BOOLEAN}
    \cup {<< [id |-> "p", second |-> a], [id |-> "q", second |-> b] >> : a, b \in BOOLEAN}

InitKit ==
    /\ InitRuntime
    /\ PlainDesign
    /\ gen = [pass |-> "kit", phase |-> "start", name |-> "", senTreeps |-> <<>>,
              m_descriptions |-> <<>>, xInitialEdge |-> FALSE, protectIds |-> FALSE,
              debug |-> FALSE, m_funcp |-> <<>>, m_dumpp |-> <<>>,
              vec |-> {}, didInit |-> 0, dpiFlag |-> 0, trace |-> <<>>, printed |-> <<>>,
              dumpRan |-> FALSE, calls |-> 0]

\* createSettle, createInputCombLoop, schedule: the trigger kit of a region
\* is made and the assignments of its extra triggers are added
KitCreate ==
    /\ InPhase("kit", "start")
    /\ \E name \in Kits, senTreeps \in KitSenTreeps, dpi \in BOOLEAN, post \in BOOLEAN,
          xInitialEdge \in BOOLEAN, protectIds \in BOOLEAN, debug \in BOOLEAN :
          LET extras == extraTriggers(name, [dpi |-> dpi])
              tk == createTriggers(name, senTreeps, extras,
                                     IF post
                                     THEN << KitStmt("postUpdate", 0, <<>>, <<>>, <<>>, "") >>
                                     ELSE <<>>,
                                     xInitialEdge, protectIds)
              f1 == IF HasExtra(extras, dpiExport)
                    THEN addDpiExportTriggerAssignment(tk.m_funcp, allocate(extras, dpiExport))
                    ELSE tk.m_funcp
              f2 == IF HasExtra(extras, firstIteration)
                    THEN addFirstIterationTriggerAssignment(f1, allocate(extras, firstIteration))
                    ELSE f1
          IN  gen' = [gen EXCEPT !.phase = "created", !.name = name,
                                 !.senTreeps = senTreeps, !.m_descriptions = extras,
                                 !.xInitialEdge = xInitialEdge, !.protectIds = protectIds,
                                 !.debug = debug, !.m_funcp = f2, !.m_dumpp = tk.m_dumpp]
    /\ UNCHANGED runtimeVars

\* One call of the trigger computation function; before it a DPI export may
\* have been called
KitEval ==
    /\ InPhase("kit", "created")
    /\ gen.calls < MaxEvals
    /\ \E fired \in SUBSET DOMAIN gen.senTreeps, counter \in {0, 1}, raise \in BOOLEAN :
          LET ks == kitExec(gen.m_funcp,
                            [vec |-> gen.vec, didInit |-> gen.didInit,
                             dpiFlag |-> IF raise /\ HasExtra(gen.m_descriptions, dpiExport)
                                         THEN 1 ELSE gen.dpiFlag,
                             trace |-> <<>>, printed |-> <<>>, dumpRan |-> FALSE],
                            [fired |-> fired, counter |-> counter, debug |-> gen.debug,
                             m_dumpp |-> gen.m_dumpp])
          IN  gen' = [gen EXCEPT !.vec = ks.vec, !.didInit = ks.didInit,
                                 !.dpiFlag = ks.dpiFlag, !.trace = ks.trace,
                                 !.printed = ks.printed, !.dumpRan = ks.dumpRan,
                                 !.calls = @ + 1]
    /\ UNCHANGED runtimeVars

\* The call of the dump function in the block of the convergence failure
KitDump ==
    /\ InPhase("kit", "created")
    /\ gen.debug
    /\ LET ks == kitExec(gen.m_dumpp,
                         [vec |-> gen.vec, didInit |-> gen.didInit, dpiFlag |-> gen.dpiFlag,
                          trace |-> <<>>, printed |-> <<>>, dumpRan |-> TRUE],
                         [fired |-> {}, counter |-> 0, debug |-> gen.debug,
                          m_dumpp |-> gen.m_dumpp])
       IN  gen' = [gen EXCEPT !.printed = ks.printed, !.dumpRan = TRUE]
    /\ UNCHANGED runtimeVars

NextKit ==
    \/ KitCreate
    \/ KitEval
    \/ KitDump

SpecKit == InitKit /\ [][NextKit]_vars

(***************************************************************************)
(* C32: initialization time triggers                                       *)
(***************************************************************************)
KitCreated == InPhase("kit", "created")

\* The trigger of the k-th AstSenTree
SenseTrigger(k) == Len(gen.m_descriptions) + k - 1

\* The guarded blocks of the trigger computation function
InitBlocks == {s \in SetOf(gen.m_funcp) : s.op = "ifNot"}

\* The k-th AstSenTree has a "set to true" statement in a guarded block
ScheduledInit(k) ==
    \E b \in InitBlocks : setTrig(SenseTrigger(k), << "const", 1 >>) \in SetOf(b.thensp)

\* The positions in the statements run by the last call of the statements
\* that set a trigger from its expression, and of those that set one to true
BuildSetsRun == {j \in DOMAIN gen.trace : gen.trace[j].op = "set" /\ gen.trace[j].valp[1] = "build"}
ConstSetsRun == {j \in DOMAIN gen.trace : gen.trace[j].op = "set" /\ gen.trace[j].valp[1] = "const"}

\* C32: the trigger computation function has a "set trigger to true"
\* statement for the trigger of an AstSenTree exactly when build reports an
\* initialization time trigger for it or xInitialEdge is set; these
\* statements are in one block guarded by the did init flag, they run in the
\* first call of the function, after every trigger was set from its
\* expression in that call, together with the statement that sets the flag,
\* which stays set, and they run in no later call.
C32_InitialTriggers ==
    KitCreated =>
       /\ \A k \in DOMAIN gen.senTreeps :
             ScheduledInit(k) <=> (gen.senTreeps[k].second \/ gen.xInitialEdge)
       /\ Cardinality(InitBlocks) <= 1
       /\ \A s \in SetOf(gen.m_funcp) : ~(s.op = "set" /\ s.valp[1] = "const")
       /\ gen.calls = 1 =>
             /\ {gen.trace[j].index : j \in ConstSetsRun}
                  = {SenseTrigger(k) : k \in {l \in DOMAIN gen.senTreeps : ScheduledInit(l)}}
             /\ \A i \in BuildSetsRun, j \in ConstSetsRun : i < j
             /\ Cardinality(BuildSetsRun) = Len(gen.senTreeps)
             /\ \A k \in DOMAIN gen.senTreeps : ScheduledInit(k) => SenseTrigger(k) \in gen.vec
       /\ gen.calls > 1 => ConstSetsRun = {}
       /\ gen.didInit = IF gen.calls >= 1 /\ InitBlocks # {} THEN 1 ELSE 0

\* Two AstSenTrees, build reports an initialization time trigger for the
\* second only: its trigger is set in the first call though its expression
\* is false, and in the second call it is not
C32_Witness ==
    /\ KitCreated
    /\ gen.name = "act" /\ ~gen.xInitialEdge
    /\ Len(gen.senTreeps) = 2 /\ ~gen.senTreeps[1].second /\ gen.senTreeps[2].second
    /\ gen.calls = 2 /\ gen.didInit = 1
    /\ ConstSetsRun = {} /\ Cardinality(BuildSetsRun) = 2
    /\ gen.vec = {}

(***************************************************************************)
(* C33: the trigger dump function                                          *)
(***************************************************************************)
\* The dump function has run on the TRIGGERVEC as it is now
Dumped == KitCreated /\ gen.dumpRan

\* What trigger index stands for
SourceOf(index) ==
    IF index < Len(gen.m_descriptions)
    THEN "Internal '" \o gen.name \o "' trigger - " \o gen.m_descriptions[index + 1]
    ELSE "@(" \o gen.senTreeps[index - Len(gen.m_descriptions) + 1].id \o ")"

LineOf(index) ==
    "'" \o gen.name \o "' region trigger index " \o cvtToStr(index) \o " is active: "
    \o SourceOf(index)

\* One line for each trigger that is set, in the order of the triggers
RECURSIVE LinesFrom(_)
LinesFrom(index) ==
    IF index >= Len(gen.m_descriptions) + Len(gen.senTreeps) THEN <<>>
    ELSE (IF index \in gen.vec THEN << LineOf(index) >> ELSE <<>>) \o LinesFrom(index + 1)

\* As stated, for a dump function that was not emptied: nothing is printed
\* when no trigger is set
C33_AsStated ==
    (Dumped /\ ~gen.protectIds) => gen.printed = IF gen.vec = {} THEN <<>> ELSE LinesFrom(0)

\* C33: the dump function prints, when no trigger is set, the one line "No
\* triggers active", and otherwise one line for each trigger that is set,
\* extra triggers and those of the AstSenTrees alike, that names the trigger
\* and what it stands for, and no line for a trigger that is not set; with
\* protectIds the function is empty and prints nothing.
C33_DumpLines ==
    Dumped =>
       gen.printed = IF gen.protectIds THEN <<>>
                     ELSE IF gen.vec = {} THEN << NoTriggersActive >>
                     ELSE LinesFrom(0)

\* the first iteration trigger and the trigger of the second AstSenTree are
\* set, that of the first is not: two lines
C33_Witness ==
    /\ Dumped /\ ~gen.protectIds
    /\ gen.name = "stl" /\ Len(gen.senTreeps) = 2
    /\ gen.vec = {0, 2}
    /\ gen.printed
         = << "'stl' region trigger index 0 is active: Internal 'stl' trigger - first iteration",
              "'stl' region trigger index 2 is active: @(q)" >>

(***************************************************************************)
(* schedule: which logic goes into which function                          *)
(***************************************************************************)
\* A piece of logic (an AstActive with its statements): copy tells the deep
\* copies of the same logic apart
Fragment(id, copy) == [id |-> id, copy |-> copy]

ClassNames == {"m_static", "m_initial", "m_final", "m_comb", "m_clocked", "m_hybrid",
               "m_postponed", "m_observed", "m_reactive"}
RegionNames == {"m_pre", "m_act", "m_nba"}
ReplicaNames == {"m_ico", "m_act", "m_nba"}

\* The functions logic is put into
LogicOwners ==
    TopFuncs \cup {EvalFunc(t) : t \in {"stl", "ico", "act", "nba", "obs", "react"}}
    \cup {"_timing_resume"}

\* Variant: the LogicByScope is copied, the logic it refers to is not
LogicByScope_clone_shallow(lbs, copy) == lbs

\* LogicByScope::clone: a deep copy of each AstActive
LogicByScope_clone(lbs, copy) == {Fragment(f.id, copy) : f \in lbs}

\* orderSequentially and V3Order::order move the logic into the function
consume(funcs, funcp, lbs) == [funcs EXCEPT ![funcp] = @ \cup lbs]

\* The functions from a set A to the set B
AllMaps(A, B) == [A -> B]

\* The logic classes gatherLogicClasses may give for two pieces of logic, and
\* the AstActives of the timing kit
InitSched ==
    /\ InitRuntime
    /\ PlainDesign
    /\ \E ca \in ClassNames \ {"m_hybrid"}, cb \in {"m_comb", "m_clocked", "m_observed"},
          timing \in BOOLEAN :
          gen = [pass |-> "schedule", phase |-> "step2",
                 logicClasses |-> [c \in ClassNames |->
                                     (IF c = ca THEN {Fragment("a", "")} ELSE {})
                                     \cup (IF c = cb THEN {Fragment("b", "")} ELSE {})],
                 logicRegions |-> [r \in RegionNames |-> {}],
                 logicReplicas |-> [r \in ReplicaNames |-> {}],
                 m_lbs |-> IF timing THEN {Fragment("t", "")} ELSE {},
                 funcs |-> [f \in LogicOwners |-> {}],
                 settleBefore |-> [c \in ClassNames |-> {}]]

\* Step 2: createStatic, createInitial, createFinal
SchedStep2 ==
    /\ InPhase("schedule", "step2")
    /\ LET f1 == consume(gen.funcs, "_eval_static", gen.logicClasses.m_static)
           f2 == consume(f1, "_eval_initial", gen.logicClasses.m_initial)
           f3 == consume(f2, "_eval_final", gen.logicClasses.m_final)
       IN  gen' = [gen EXCEPT !.phase = "step3", !.funcs = f3,
                              !.logicClasses.m_static = {},
                              !.logicClasses.m_initial = {},
                              !.logicClasses.m_final = {}]
    /\ UNCHANGED runtimeVars

\* Step 3: breakCycles removes logic from m_comb and returns it as hybrid
SchedBreakCycles ==
    /\ InPhase("schedule", "step3")
    /\ \E hybrid \in SUBSET gen.logicClasses.m_comb :
          gen' = [gen EXCEPT !.phase = "step4",
                             !.logicClasses.m_comb = @ \ hybrid,
                             !.logicClasses.m_hybrid = hybrid]
    /\ UNCHANGED runtimeVars

\* Step 4: createSettle
SchedSettle ==
    /\ InPhase("schedule", "step4")
    /\ LET comb == LogicByScope_clone(gen.logicClasses.m_comb, "stl")
           hybrid == LogicByScope_clone(gen.logicClasses.m_hybrid, "stl")
       IN  gen' = [gen EXCEPT !.phase = "step5",
                              !.settleBefore = gen.logicClasses,
                              !.funcs = IF comb = {} /\ hybrid = {} THEN @
                                        ELSE consume(@, EvalFunc("stl"), comb \cup hybrid)]
    /\ UNCHANGED runtimeVars

\* Steps 5 and 6: partition moves the clocked, combinational and hybrid
\* logic into the regions; replicateLogic makes copies of combinational and
\* hybrid logic of the regions for the regions that need one
SchedPartition ==
    /\ InPhase("schedule", "step5")
    /\ LET logic == gen.logicClasses.m_clocked \cup gen.logicClasses.m_comb
                    \cup gen.logicClasses.m_hybrid
           comb == gen.logicClasses.m_comb \cup gen.logicClasses.m_hybrid
       IN  \E region \in AllMaps(logic, RegionNames),
              copies \in AllMaps(comb, SUBSET ReplicaNames) :
              gen' = [gen EXCEPT
                        !.phase = "step7",
                        !.logicClasses.m_clocked = {},
                        !.logicClasses.m_comb = {},
                        !.logicClasses.m_hybrid = {},
                        !.logicRegions = [r \in RegionNames |-> {f \in logic : region[f] = r}],
                        !.logicReplicas =
                            [r \in ReplicaNames |->
                               {Fragment(f.id, "replica " \o r) : f \in {g \in comb : r \in copies[g]}}]]
    /\ UNCHANGED runtimeVars

\* Step 7: createInputCombLoop
SchedIco ==
    /\ InPhase("schedule", "step7")
    /\ gen' = [gen EXCEPT !.phase = "step9",
                          !.funcs = IF gen.logicReplicas.m_ico = {} THEN @
                                    ELSE consume(@, EvalFunc("ico"), gen.logicReplicas.m_ico),
                          !.logicReplicas.m_ico = {}]
    /\ UNCHANGED runtimeVars

\* Step 9: the 'act' region function
SchedAct ==
    /\ InPhase("schedule", "step9")
    /\ gen' = [gen EXCEPT !.phase = "step10",
                          !.funcs = consume(@, EvalFunc("act"),
                                            gen.logicRegions.m_pre \cup gen.logicRegions.m_act
                                            \cup gen.logicReplicas.m_act),
                          !.logicRegions.m_pre = {},
                          !.logicRegions.m_act = {},
                          !.logicReplicas.m_act = {}]
    /\ UNCHANGED runtimeVars

\* Steps 10 to 13: the 'nba', 'obs', 'react' and 'postponed' functions
SchedNba ==
    /\ InPhase("schedule", "step10")
    /\ LET f1 == consume(gen.funcs, EvalFunc("nba"),
                         gen.logicRegions.m_nba \cup gen.logicReplicas.m_nba)
           f2 == IF gen.logicClasses.m_observed = {} THEN f1
                 ELSE consume(f1, EvalFunc("obs"), gen.logicClasses.m_observed)
           f3 == IF gen.logicClasses.m_reactive = {} THEN f2
                 ELSE consume(f2, EvalFunc("react"), gen.logicClasses.m_reactive)
           f4 == consume(f3, "_eval_postponed", gen.logicClasses.m_postponed)
       IN  gen' = [gen EXCEPT !.phase = "step14", !.funcs = f4,
                              !.logicRegions.m_nba = {},
                              !.logicReplicas.m_nba = {},
                              !.logicClasses.m_observed = {},
                              !.logicClasses.m_reactive = {},
                              !.logicClasses.m_postponed = {}]
    /\ UNCHANGED runtimeVars

\* Step 14: createEval, which calls TimingKit::createResume
SchedEval ==
    /\ InPhase("schedule", "step14")
    /\ gen' = [gen EXCEPT !.phase = "done",
                          !.funcs = IF gen.m_lbs = {} THEN @
                                    ELSE consume(@, "_timing_resume", gen.m_lbs)]
    /\ UNCHANGED runtimeVars

NextSched ==
    \/ SchedStep2
    \/ SchedBreakCycles
    \/ SchedSettle
    \/ SchedPartition
    \/ SchedIco
    \/ SchedAct
    \/ SchedNba
    \/ SchedEval

SpecSched == InitSched /\ [][NextSched]_vars

(***************************************************************************)
(* C34: no logic is in two functions                                       *)
(***************************************************************************)
SettleDone == gen.pass = "schedule" /\ gen.phase \notin {"step2", "step3", "step4"}

\* C34: no piece of logic is in two of the functions made (static, initial,
\* final, postponed, stl, ico, act, nba, obs, react, resume): createSettle
\* puts deep copies in the settle function, none of the combinational and
\* hybrid logic of logicClasses itself, and leaves m_comb and m_hybrid as
\* they were; each function gets the logic of its own collections.
C34_NoSharedLogic ==
    gen.pass = "schedule" =>
       /\ \A f, g \in LogicOwners : f # g => gen.funcs[f] \cap gen.funcs[g] = {}
       /\ gen.phase = "step5" =>
             /\ gen.logicClasses = gen.settleBefore
             /\ gen.funcs[EvalFunc("stl")]
                  = {Fragment(x.id, "stl") :
                       x \in gen.settleBefore.m_comb \cup gen.settleBefore.m_hybrid}
             /\ gen.funcs[EvalFunc("stl")]
                  \cap (gen.logicClasses.m_comb \cup gen.logicClasses.m_hybrid) = {}
       /\ SettleDone =>
             \A x \in gen.funcs[EvalFunc("stl")] : x.copy = "stl"
       /\ gen.phase = "done" =>
             /\ \A x \in gen.funcs[EvalFunc("ico")] : x.copy = "replica m_ico"
             /\ \A x \in gen.funcs["_timing_resume"] : x.id = "t"
             /\ \A f \in TopFuncs \cup {EvalFunc("obs"), EvalFunc("react")} :
                   \A x \in gen.funcs[f] : x.copy = ""

\* combinational logic a and b: the settle function has a copy of each, the
\* act and nba functions the logic itself, and the ico function another copy
C34_Witness ==
    /\ InPhase("schedule", "done")
    /\ gen.funcs[EvalFunc("stl")] = {Fragment("a", "stl"), Fragment("b", "stl")}
    /\ gen.funcs[EvalFunc("act")] = {Fragment("a", "")}
    /\ gen.funcs[EvalFunc("nba")] = {Fragment("b", ""), Fragment("a", "replica m_nba")}
    /\ gen.funcs[EvalFunc("ico")] = {Fragment("b", "replica m_ico")}
    /\ gen.funcs["_timing_resume"] = {Fragment("t", "")}

(***************************************************************************)
(* C35: the number of iterations of one run of a loop                      *)
(***************************************************************************)
\* In the current iteration of loop t: the counter was 0 when the loop was
\* entered; the limit is tested on the number of bodies run so far in this
\* run of the loop, before the increment; the test succeeds in iteration
\* limit + 2 and in no other, and then nothing but the fatal block follows;
\* the increment and the body follow only a test that failed
IterationsWithinLimit(t) ==
    LET L == LogOf(t)
        a == AnyPos(t)
        l == IndexOf(L, TestLimit(t))
        i == IndexOf(L, Increment(t))
    IN  /\ AtEntry(t) => mem[IterCount(t)] = 0
        /\ mem[IterCount(t)] <= ConvergeLimit + 1
        /\ l > 0 =>
              /\ a > 0 /\ a < l /\ Res(L[a])
              /\ mem[IterCount(t)] = IF i > 0 THEN IterNoOf(t) ELSE IterNoOf(t) - 1
              /\ Res(L[l]) <=> IterNoOf(t) = ConvergeLimit + 2
              /\ Res(L[l]) =>
                    /\ i = 0
                    /\ \A j \in (l + 1) .. Len(L) : L[j][1] \in {"ifdefDebugCall", "fatal"}
        /\ i > 0 => l > 0 /\ l < i /\ IterNoOf(t) <= ConvergeLimit + 1
        /\ a > 0 =>
              \A j \in (a + 1) .. Len(L) :
                 L[j][1] \in {"call", "thisOr", "andNot", "clear", "while"} => (i > 0 /\ i < j)

\* C35: with convergence limit L, one run of a loop runs its body at most
\* L + 1 times: the counter is 0 whenever the loop is entered, it counts the
\* bodies run in this run of the loop, and the test counter > L comes before
\* the increment; so the fatal failure is raised in the triggered iteration
\* L + 2 of the run, before the increment, the body and the propagation of
\* the triggers of that iteration.
C35_IterationBound ==
    /\ \A t \in Tags : IterationsWithinLimit(t)
    /\ status = "fatal" =>
          \E t \in Tags : /\ InLoop(t)
                          /\ IterNoOf(t) = ConvergeLimit + 2
                          /\ mem[IterCount(t)] = ConvergeLimit + 1

\* the active loop fails in its iteration L + 2, after L + 1 bodies
C35_Witness ==
    /\ status = "fatal" /\ InLoop("act")
    /\ IterNoOf("act") = ConvergeLimit + 2
    /\ mem[IterCount("act")] = ConvergeLimit + 1
    /\ fbCount = ConvergeLimit + 1

(***************************************************************************)
(* C36: the pre, active and NBA vectors in the active loop                 *)
(***************************************************************************)
\* C36: from the two vector statements of the active body to the end of the
\* iteration pre is a subset of act and act a subset of nba; the bits of pre
\* are those of act that were in the act vector of no earlier iteration of
\* this run of the active loop, so a bit is in pre in one iteration of the
\* run at most, the first one in which it is in act.
C36_PreOnce ==
    LET L == LogOf("act")
        p == IndexOf(L, ComputePre)
        q == LatchPos(<<"act", "nba">>)
    IN  /\ (p > 0 /\ q > 0) =>
              /\ p < q
              /\ trig[Triggered("pre")] \subseteq trig[Triggered("act")]
              /\ trig[Triggered("act")] \subseteq trig[Triggered("nba")]
        /\ (p > 0 /\ LogicPos(<<"act", "nba">>) = 0) =>
              /\ trig[Triggered("pre")] \cap actSeen = {}
              /\ (trig[Triggered("act")] \ actSeen) \subseteq trig[Triggered("pre")]
        /\ (p > 0 /\ LogicPos(<<"act", "nba">>) > 0) =>
              trig[Triggered("pre")] \subseteq actSeen
        /\ (AtRetest("act") /\ Triggered_("act")) => (p > 0 /\ q > 0)
        /\ InLoop("act") => actSeen \subseteq trig[Triggered("nba")]

\* a later iteration of a run of the active loop: a bit that was in act
\* before is in act again and not in pre
C36_Witness ==
    /\ AtRetest("act") /\ Triggered_("act")
    /\ IterNoOf("act") = 2
    /\ trig[Triggered("act")] # {}
    /\ trig[Triggered("pre")] = {}

(***************************************************************************)
(* C38: the vectors when _eval returns                                     *)
(***************************************************************************)
EvalReturned == status = "returned" /\ pc.fn = "_eval"

\* C38: when _eval returns, the ico, act, nba, obs and react vectors have no
\* bit set; the pre vector may have.
C38_ZeroAtReturn ==
    EvalReturned =>
       \A t \in {"ico", "act", "nba", "obs", "react"} : ~VecAny(trig[Triggered(t)])

\* _eval has returned from a design with all the loops and pre has a bit
C38_Witness ==
    /\ EvalReturned
    /\ design.ico /\ design.obs /\ design.react
    /\ VecAny(trig[Triggered("pre")])
    /\ mem[IterCount("react")] > 0

(***************************************************************************)
(* The active loop over the timing schedulers: the commit function runs    *)
(* in the trigger section, the resume function in the body                 *)
(***************************************************************************)
\* Does the sensitivity of an AstActive of a function hold?  Its AstSenItem
\* reads bit index of the vector, under an AstLogNot or not
senseHolds(senTreep, vec) ==
    IF senTreep.sensesp[1] = AstLogNot("true") THEN senTreep.index \notin vec
    ELSE senTreep.index \in vec

\* The method calls made by a call of a function of AstActives, in order;
\* step is the section of the loop that makes the call
RECURSIVE runActives(_, _, _)
runActives(stmtsp, vec, step) ==
    IF stmtsp = <<>> THEN <<>>
    ELSE LET activep == Head(stmtsp)
             callp == activep.stmtsp[1]
         IN  (IF senseHolds(activep.sensesp, vec)
              THEN << [name |-> callp.name, fromp |-> callp.fromp, step |-> step] >>
              ELSE <<>>)
             \o runActives(Tail(stmtsp), vec, step)

\* The statements of the function of an AstCCall, none for nullptr
CalledStmts(kit, callp) == IF callp = nullptr THEN <<>> ELSE kit.funcs[callp]

InitWaits ==
    /\ InitRuntime
    /\ PlainDesign
    /\ gen = [pass |-> "waits", phase |-> "start", kit |-> EmptyKit,
              commitp |-> nullptr, resumep |-> nullptr,
              act |-> {}, nba |-> {}, pre |-> {}, counter |-> 0,
              calls |-> <<>>, ended |-> "", runs |-> 0]

\* schedule: prepareTiming, the remapping of m_lbs to the 'act' triggers, and
\* the commit and the resume calls createEval puts into the active loop
WaitsSchedule ==
    /\ InPhase("waits", "start")
    /\ \E netlistp \in Netlists :
          LET kit0 == prepareTiming(TRUE, netlistp)
              lbs == kit0.m_lbs
              actTrigMap == [senTreep \in {lbs[k].sensesp : k \in DOMAIN lbs} |->
                               TrigSenTree(Triggered("act"),
                                           CHOOSE k \in DOMAIN lbs : lbs[k].sensesp = senTreep)]
              kit1 == [kit0 EXCEPT !.m_lbs =
                          [k \in DOMAIN lbs |->
                             [lbs[k] EXCEPT !.sensesp = remapSensitivities(@, actTrigMap)]]]
              c == TimingKit_createCommit(kit1)
              r == TimingKit_createResume(c.kit)
          IN  gen' = [gen EXCEPT !.phase = IF c.kit.fatal # "" THEN "aborted" ELSE "built",
                                 !.kit = r.kit, !.commitp = c.callp, !.resumep = r.callp]
    /\ UNCHANGED runtimeVars

\* makeEvalLoop: the counter is reset and the loop is entered; the 'nba'
\* triggers were cleared before
WaitsEnter ==
    /\ gen.pass = "waits" /\ gen.phase \in {"built", "exited"}
    /\ gen.runs < MaxRuns
    /\ gen' = [gen EXCEPT !.phase = "trigger", !.counter = 0, !.nba = {},
                          !.calls = <<>>, !.ended = "", !.runs = @ + 1]
    /\ UNCHANGED runtimeVars

\* The trigger section: the trigger computation sets the 'act' vector, then
\* the commit function is called
WaitsTrigger ==
    /\ InPhase("waits", "trigger")
    /\ \E fired \in SUBSET DOMAIN gen.kit.m_lbs :
          gen' = [gen EXCEPT !.phase = "test", !.act = fired, !.ended = "",
                             !.calls = runActives(CalledStmts(gen.kit, gen.commitp),
                                                  fired, "trigger")]
    /\ UNCHANGED runtimeVars

\* No trigger is set: the loop is left
WaitsExit ==
    /\ InPhase("waits", "test")
    /\ gen.act = {}
    /\ gen' = [gen EXCEPT !.phase = "exited", !.ended = "exit"]
    /\ UNCHANGED runtimeVars

\* A trigger is set and the counter is over the limit: the fatal error
WaitsFatal ==
    /\ InPhase("waits", "test")
    /\ gen.act # {}
    /\ gen.counter > ConvergeLimit
    /\ gen' = [gen EXCEPT !.phase = "fatal", !.ended = "fatal"]
    /\ UNCHANGED runtimeVars

\* A trigger is set: the counter is incremented and the body runs, with the
\* pre triggers, the latch, the call of the resume function
WaitsBody ==
    /\ InPhase("waits", "test")
    /\ gen.act # {}
    /\ gen.counter <= ConvergeLimit
    /\ gen' = [gen EXCEPT !.phase = "trigger", !.ended = "body",
                          !.counter = @ + 1,
                          !.pre = gen.act \ gen.nba,
                          !.nba = @ \cup gen.act,
                          !.calls = @ \o runActives(CalledStmts(gen.kit, gen.resumep),
                                                    gen.act, "body")]
    /\ UNCHANGED runtimeVars

NextWaits ==
    \/ WaitsSchedule
    \/ WaitsEnter
    \/ WaitsTrigger
    \/ WaitsExit
    \/ WaitsFatal
    \/ WaitsBody

SpecWaits == InitWaits /\ [][NextWaits]_vars

(***************************************************************************)
(* C37: commit or resume, for each trigger scheduler and iteration         *)
(***************************************************************************)
\* An iteration of the active loop has ended, in the way given
IterationEnded(how) == gen.pass = "waits" /\ gen.ended = how

\* The bits of the 'act' vector whose wait is on a trigger scheduler
TriggerWaits ==
    {k \in DOMAIN gen.kit.m_lbs : isTriggerScheduler(SchedulerOf(gen.kit.m_lbs[k]))}

\* How often the iteration called the method of the scheduler of bit k
Invoked(name, k) ==
    Cardinality({j \in DOMAIN gen.calls :
                   /\ gen.calls[j].name = name
                   /\ gen.calls[j].fromp = SchedulerOf(gen.kit.m_lbs[k])})

\* The calls of the method were made in the section given
InvokedIn(name, step) ==
    \A j \in DOMAIN gen.calls : gen.calls[j].name = name => gen.calls[j].step = step

\* As stated: in every iteration, the last one and the failing one included,
\* each trigger scheduler has exactly one of commit and resume called
C37_AsStated ==
    (gen.pass = "waits" /\ gen.ended # "") =>
        \A k \in TriggerWaits : Invoked("commit", k) + Invoked("resume", k) = 1

\* C37: in every iteration of the active loop that runs the body or leaves
\* the loop, each trigger scheduler has exactly one of commit and resume
\* called: commit in the trigger section if its bit of the 'act' vector is
\* clear, resume in the body if it is set.  The iteration that leaves the
\* loop calls commit for each of them and resume for none.  The iteration
\* that ends in the fatal error calls commit for the clear bits and nothing
\* for the set ones.
C37_CommitOrResume ==
    /\ (IterationEnded("body") \/ IterationEnded("exit")) =>
          /\ \A k \in TriggerWaits :
                /\ Invoked("commit", k) + Invoked("resume", k) = 1
                /\ Invoked("resume", k) = 1 <=> k \in gen.act
          /\ InvokedIn("commit", "trigger")
          /\ InvokedIn("resume", "body")
    /\ IterationEnded("exit") =>
          /\ \A k \in TriggerWaits : Invoked("commit", k) = 1
          /\ \A k \in DOMAIN gen.kit.m_lbs : Invoked("resume", k) = 0
    /\ IterationEnded("fatal") =>
          \A k \in TriggerWaits :
             /\ Invoked("resume", k) = 0
             /\ Invoked("commit", k) = 1 <=> k \notin gen.act

\* An iteration that ran the body with one trigger scheduler resumed and
\* another one committed
C37_Witness ==
    /\ IterationEnded("body")
    /\ \E k1, k2 \in TriggerWaits :
          /\ k1 \in gen.act /\ Invoked("resume", k1) = 1
          /\ k2 \notin gen.act /\ Invoked("commit", k2) = 1

(***************************************************************************)
(* C39: the DPI export flag, read by the ico and the act trigger           *)
(* computations                                                            *)
(***************************************************************************)
\* The index of the DPI export trigger of the act kit
ActDpiBit == allocate(extraTriggers("act", design), dpiExport)

\* The loops of _eval that run after the ico loop
LaterLoops == {"act", "nba", "obs", "react"}

\* The act trigger computation about to run is the first one of the call
FirstActCompute == ActCompute /\ \A t \in LaterLoops : IterNoOf(t) <= 1

\* _eval_triggers__act copies the flag to its trigger, then resets the flag
ActCopyThenClear ==
    (ActCompute /\ design.dpi) =>
       /\ (ActDpiBit \in trig'[Triggered("act")]) <=> (mem[dpiExportTriggerVscp] = 1)
       /\ mem'[dpiExportTriggerVscp] = 0

\* _eval_triggers__ico resets the flag
IcoClears == (IcoCompute /\ design.dpi) => mem'[dpiExportTriggerVscp] = 0

\* The flag is raised during the call by the logic only
RaisedByLogic ==
    (status = "running" /\ mem[dpiExportTriggerVscp] = 0
     /\ mem'[dpiExportTriggerVscp] = 1) => (At("call") /\ Cur.var \in LogicFuncs)

\* With an ico loop the trigger computations of ico all run before the other
\* loops are entered, and the first act trigger computation finds the flag
\* reset
IcoConsumesFirst ==
    /\ IcoCompute => \A t \in LaterLoops : IterNoOf(t) = 0
    /\ (FirstActCompute /\ design.ico /\ design.dpi) => mem[dpiExportTriggerVscp] = 0

\* C39: the ico and the act trigger computations read the same flag and both
\* reset it.  With an ico loop, the flag raised before the call of _eval is
\* reset by the ico trigger computations, which all run before the first act
\* one, so the first act trigger computation finds it reset; the flag is
\* raised during the call by the logic only, hence the DPI export trigger of
\* the act vector is set by a raising later than the last ico computation.
C39_FlagConsumed ==
    [](IcoConsumesFirst) /\ [][IcoClears /\ ActCopyThenClear /\ RaisedByLogic]_vars

\* a design with ico logic; the flag was raised by the logic after the ico
\* loop and the act trigger computation has set its trigger from it
C39_Witness ==
    /\ design.ico /\ design.dpi
    /\ status = "running"
    /\ ActDpiBit \in trig[Triggered("act")]
    /\ mem[dpiExportTriggerVscp] = 0
    /\ fbCount = 1

(***************************************************************************)
(* C40: a call of _eval ends                                               *)
(***************************************************************************)
\* A call of _eval is under way
EvalRunning == status = "running" /\ pc.fn = "_eval"

\* The call has ended: _eval has returned, or VL_FATAL_MT was reached
EvalEnded == pc.fn = "_eval" /\ status \in {"returned", "fatal"}

\* No loop is in an iteration beyond limit + 2 of its run
BoundedIterations == \A t \in Tags : IterNoOf(t) <= ConvergeLimit + 2

\* The running call has a statement to execute, it waits for nothing
NeverBlocks == status = "running" => ENABLED Next

\* C40: with trigger computations and logic functions that return, every call
\* of _eval ends, by its return or in the fatal error: each loop makes at
\* most limit + 2 iterations in each of its runs, and the call always has a
\* next statement to execute.
C40_Terminates ==
    /\ [](BoundedIterations /\ NeverBlocks)
    /\ EvalRunning ~> EvalEnded

\* _eval has returned although the logic has fed back as often as it can
C40_Witness ==
    /\ EvalEnded /\ status = "returned"
    /\ fbCount = MaxFeedback
    /\ design.ico /\ design.obs /\ design.react

====
